---------------------------- MODULE HttpRequest ----------------------------
(***************************************************************************)
(* A request in the making: the header parser of module HttpParser with    *)
(* the callbacks of src/plugin/http/plm_http_request.c, which store the    *)
(* request line and the fields in memory from the connection's pool        *)
(* (module Mempool) and split the URL (module HttpUrl).                    *)
(*                                                                         *)
(* A name is a sequence of letters, as long as it must be for              *)
(* plm_strcasecmp() to tell the names apart; what the parser calls one     *)
(* "field" is any member of FieldTexts.  The re-initialisation of hp_state *)
(* by plm_http_on_hdr_done() is left to module HttpConn: the message ends  *)
(* there.                                                                  *)
(***************************************************************************)
EXTENDS Integers, HttpParser, Mempool, HttpUrl

CONSTANTS
  Urls,        \* bound: the URLs of request lines
  FieldTexts,  \* bound: fields: name k, value v, the number n in it
  PortNumbers, \* bound: the numbers behind a colon
  BlockSizes,  \* bound: initial block sizes of the pool
  ReqSize, StrSize, HashNodeSize, BucketsSize \* sizeof() of what is stored

ASSUME HttpRequestAssumption ==
  /\ BlockSizes \subseteq Nat \ {0} /\ PortNumbers \subseteq Nat
  /\ {ReqSize, StrSize, HashNodeSize, BucketsSize} \subseteq Nat \ {0}
  /\ Urls \subseteq Seq({":", "/", "c"})
  /\ FieldTexts \subseteq [k : Seq(STRING) \ {<<>>}, v : Seq(STRING), n : Int]

VARIABLES
  pool,    \* hc_pool
  hp_data, \* the parser's user data: "conn" or "req"
  req,     \* the front of hc_reqs, or None
  body,    \* hc_body.hb_callback is set
  failed,  \* "no"; "wild": an object taken for another; "null": no buckets
  refused, \* history: an allocation has failed
  split    \* history: CR and LF of the blank line came in different calls

rvars == <<pool, hp_data, req, body, failed, refused, split>>
allvars == <<vars, rvars>>

None == [host |-> <<>>]

NewReq(host, port, buckets) ==
  [host |-> host, hr_port |-> port, hr_cntlen |-> 0, kpalv |-> FALSE,
   h_bucket |-> buckets, h_len |-> 0, hr_fields |-> [b \in 0 .. 25 |-> <<>>],
   accepted |-> <<>>]

RInit ==
  /\ Init
  /\ \E blk_sz \in BlockSizes : pool = NewPool(blk_sz)
  /\ hp_data = "conn" /\ req = None /\ body = FALSE
  /\ failed = "no" /\ refused = FALSE /\ split = FALSE

-----------------------------------------------------------------------------
(* Strings.                                                                *)

Upper(c) == CASE c = "c" -> "C" [] c = "h" -> "H" [] c = "p" -> "P" [] OTHER -> c

(* plm_casecmp(), for strings of one length: the loop stops at the first   *)
(* letters that are EQUAL but for their case; then it is their case that   *)
(* is compared.  Without any such letters the strings count as equal.      *)
Casecmp(s1, s2) ==
  LET same == {i \in DOMAIN s1 : Upper(s1[i]) = Upper(s2[i])}
      i == CHOOSE i \in same : \A j \in same : i <= j
  IN same = {} \/ s1[i] = s2[i]
(* plm_strcasecmp(): the names to compare with have their NUL counted in   *)
(* their length (plm_string), which the names that come have not.          *)
Strcasecmp(s1, s2) ==
  \/ Len(s1) = Len(s2) /\ Casecmp(s1, s2)
  \/ Len(s1) + 1 = Len(s2) /\ s2[Len(s2)] = "nul" /\ Casecmp(s1, s2)

Connection      == <<"C", "o", "n", "nul">>
ProxyConnection == <<"P", "r", "C", "o", "n", "nul">>
ContentLength   == <<"C", "o", "l", "e", "n", "nul">>
KeepAlive       == <<"k", "a", "nul">>

(* plm_http_field_key(): the code of the first letter modulo 26.           *)
FieldKey(k) ==
  CASE k[1] = "C" -> 15 [] k[1] = "c" -> 21 [] k[1] = "P" -> 2 [] k[1] = "p" -> 8
    [] k[1] = "H" -> 20 [] k[1] = "h" -> 0  [] OTHER -> 10

(* plm_str2s() into the uint16_t hr_port.                                  *)
Port(n) == n % 65536

-----------------------------------------------------------------------------
(* The callbacks.                                                          *)

(* plm_http_on_reqline(): the request and its URL must be had; the host    *)
(* and the buckets of the hash table are not asked for.                    *)
OnReqline ==
  \E url \in Urls :
    LET parts == ParserUrl(url)
        named == parts.host # <<>>
        must  == ThenIfGot(Then(NoneYet(pool), ReqSize), Len(url) + 1)
        got   == {r \in must : AllGot(r)}
        all   == Then(IF named THEN Then(got, Len(parts.host) + 1) ELSE got, BucketsSize)
    IN \/ \E r \in must \ got :
            /\ broke' = TRUE /\ pool' = r.pool /\ refused' = TRUE
            /\ UNCHANGED <<hp_data, req>>
       \/ \E r \in all, n \in IF parts.port = <<>> THEN {0} ELSE PortNumbers :
            /\ pool' = r.pool /\ refused' = (refused \/ ~AllGot(r))
            /\ hp_data' = "req" /\ broke' = broke
            /\ req' = NewReq(IF named /\ r.got[3] THEN parts.host ELSE <<>>, Port(n),
                             r.got[Len(r.got)])

(* What the switch of plm_http_on_field() does with a field; the port is   *)
(* set even when the host is not.                                          *)
KeepAliveOn(f, r) ==
  \/ Strcasecmp(f.k, Connection) /\ Strcasecmp(f.v, KeepAlive)
  \/ Upper(f.k[1]) = "P" /\ Strcasecmp(f.k, ProxyConnection) /\ ~Strcasecmp(f.v, KeepAlive)
  \/ r.kpalv

IsLength(f) ==
  /\ Upper(f.k[1]) = "C" /\ Strcasecmp(f.k, ContentLength)
  /\ ~(Strcasecmp(f.k, Connection) /\ Strcasecmp(f.v, KeepAlive))

NamesHost(f, r) == Upper(f.k[1]) = "H" /\ r.host = <<>>

StoredKey(f) ==
  IF Upper(f.k[1]) = "P" /\ Strcasecmp(f.k, ProxyConnection) THEN Connection ELSE f.k

(* Mutant of HashInsert: the bucket is that of the name that came.         *)
HashInsertAsCame(r, f) ==
  [r EXCEPT !.hr_fields[FieldKey(f.k)] = <<[f EXCEPT !.k = StoredKey(f)]>> \o @,
            !.h_len = @ + 1, !.accepted = Append(@, [f EXCEPT !.k = StoredKey(f)])]

(* plm_hash_insert(), in front of the others in its bucket.                *)
HashInsert(r, f) ==
  LET stored == [f EXCEPT !.k = StoredKey(f)] IN
  [r EXCEPT !.hr_fields[FieldKey(stored.k)] = <<stored>> \o @,
            !.h_len = @ + 1, !.accepted = Append(@, stored)]

Host(v) == LET colon == Find(v, 1, ":") IN IF colon = 0 THEN v ELSE SubSeq(v, 1, colon - 1)

(* plm_http_on_field() with a request, in all ways in which it may end: the*)
(* name and the value are copied, and when both are there the node of the  *)
(* hash table follows, whose buckets nobody has asked for.                 *)
OnField(f) ==
  LET names  == NamesHost(f, req)
      host   == IF names THEN Then(NoneYet(pool), Len(Host(f.v)) + 1) ELSE NoneYet(pool)
      copied == Then(Then(host, Len(StoredKey(f)) + 1 + StrSize), Len(f.v) + 1 + StrSize)
      Copied(r) == r.got[Len(r.got) - 1] /\ r.got[Len(r.got)]
      Seen(r) ==
        [req EXCEPT !.kpalv = KeepAliveOn(f, req),
                    !.hr_cntlen = IF IsLength(f) THEN f.n ELSE @,
                    !.hr_port = IF names /\ Find(f.v, 1, ":") # 0 THEN Port(f.n) ELSE @,
                    !.host = IF names /\ r.got[1] THEN Host(f.v) ELSE @]
      Fails(r) == [pool |-> r.pool, req |-> Seen(r), broke |-> TRUE, failed |-> "no",
                   refused |-> TRUE]
      Stores(r) ==
        [pool |-> r.pool, broke |-> FALSE, refused |-> refused \/ ~AllGot(r),
         req |-> IF req.h_bucket THEN HashInsert(Seen(r), f) ELSE Seen(r),
         failed |-> IF req.h_bucket THEN "no" ELSE "null"]
      noded == Then({r \in copied : Copied(r)}, HashNodeSize)
      Noded(r) == r.got[Len(r.got)]
  IN {Fails(r) : r \in {c \in copied : ~Copied(c)} \cup {n \in noded : ~Noded(n)}}
     \cup {Stores(r) : r \in {n \in noded : Noded(n)}}

Takes(o) == pool' = o.pool /\ refused' = o.refused

(* Mutant of OnHdrDone: the parser is not initialised again.               *)
OnHdrDoneNoInit(r) ==
  \/ /\ req' = [r EXCEPT !.hr_port = IF @ = 0 THEN 80 ELSE @]
     /\ body' = (r.hr_cntlen # 0)
     /\ UNCHANGED <<failed, hp_data>>
  \/ failed' = "wild" /\ req' = r /\ UNCHANGED <<hp_data, body>>

(* plm_http_on_hdr_done() has not set its pointer; it may happen to be the *)
(* request.  hr_cntlen is unsigned: any number but 0 announces a body.     *)
OnHdrDone(r) ==
  \/ /\ req' = [r EXCEPT !.hr_port = IF @ = 0 THEN 80 ELSE @]
     /\ body' = (r.hr_cntlen # 0)
     /\ hp_data' = "conn"
     /\ UNCHANGED failed
  \/ failed' = "wild" /\ req' = r /\ UNCHANGED <<hp_data, body>>

-----------------------------------------------------------------------------
(* The parser with its callbacks.                                          *)

Alive == failed = "no"

RQuiet ==
  /\ Alive
  /\ \/ \E n \in 1 .. Len(message) : Call(n)
     \/ Incomplete \/ BadLine \/ BadField \/ HeaderCrBad
  /\ UNCHANGED rvars

RFirstLine ==
  /\ Alive /\ FirstLine /\ OnReqline
  /\ UNCHANGED <<body, failed, split>>

(* After a failed plm_http_on_reqline() a conn is taken for a request.     *)
RFieldConn ==
  /\ Alive /\ hp_data = "conn" /\ FieldBreaks
  /\ failed' = "wild"
  /\ UNCHANGED <<pool, hp_data, req, body, refused, split>>

RFieldBreaks ==
  /\ Alive /\ hp_data = "req" /\ FieldBreaks
  /\ \E f \in FieldTexts : \E o \in OnField(f) :
       o.broke /\ Takes(o) /\ req' = o.req
  /\ UNCHANGED <<hp_data, body, failed, split>>

RField ==
  /\ Alive /\ hp_data = "req" /\ Field /\ hdr_done' = hdr_done
  /\ \E f \in FieldTexts : \E o \in OnField(f) :
       ~o.broke /\ Takes(o) /\ req' = o.req /\ failed' = o.failed
  /\ UNCHANGED <<hp_data, body, split>>

(* The last field: plm_http_on_hdr_done() follows in the same call.        *)
RLastField ==
  /\ Alive /\ hp_data = "req" /\ Field /\ hdr_done' # hdr_done
  /\ \E f \in FieldTexts : \E o \in OnField(f) :
       /\ ~o.broke /\ Takes(o)
       /\ \/ o.failed = "no" /\ OnHdrDone(o.req)
          \/ o.failed # "no" /\ failed' = o.failed /\ UNCHANGED <<req, hp_data, body>>
  /\ UNCHANGED split

RHeaderCr ==
  /\ Alive /\ HeaderCr /\ split' = TRUE
  /\ UNCHANGED <<pool, hp_data, req, body, failed, refused>>

RTerminated == (~Alive \/ Terminated) /\ UNCHANGED allvars

RNext ==
  \/ RQuiet \/ RFirstLine \/ RFieldConn \/ RFieldBreaks \/ RField \/ RLastField
  \/ RHeaderCr \/ RTerminated

RSpec == RInit /\ [][RNext]_allvars

-----------------------------------------------------------------------------
(* Properties.                                                             *)

Ports == {p \in Nat : p < 65536}  \* the type uint16_t

(* Every variable keeps the shape that struct plm_http_req and the parser  *)
(* give it (plm_http.h:79-104).                                            *)
RTypeOK ==
  /\ TypeOK
  /\ hp_data \in {"conn", "req"} /\ body \in BOOLEAN
  /\ failed \in {"no", "wild", "null"}
  /\ req # None =>
       /\ req.hr_port \in Ports /\ req.hr_cntlen \in Int
       /\ req.kpalv \in BOOLEAN /\ req.h_bucket \in BOOLEAN
       /\ req.h_len \in 0 .. Fields

(* Whatever is stored for a request, and whichever malloc() fails between: *)
(* the objects of the pool are inside their blocks and do not overlap, and *)
(* what the pool takes for free is behind all of them (plm_mempool_alloc). *)
PoolSound == Sound(pool) /\ FreeIsBehind(pool)

(* Every field that plm_http_on_field() has accepted is in the bucket of   *)
(* the name it is stored under, the newest in front, and in no other; none *)
(* is dropped when its neighbour fails half way.                           *)
FieldsKept ==
  req # None /\ failed = "no" =>
    LET n == Len(req.accepted)
        Key(i) == FieldKey(req.accepted[i].k)
        Since(i, b) == Cardinality({j \in i .. n : Key(j) = b})
    IN /\ req.h_len = n
       /\ \A b \in 0 .. 25 : Len(req.hr_fields[b]) = Since(1, b)
       /\ \A i \in 1 .. n : req.hr_fields[Key(i)][Since(i, Key(i))] = req.accepted[i]

(* "change back to conn in plm_http_on_hdr_done" (plm_http_request.c:284): *)
(* a header that is done leaves the connection as the user data and the    *)
(* port set, unless its blank line came in two calls (plm_http_parser.c:   *)
(* 381), or a callback had failed.                                         *)
UserDataRestored ==
  result = "DONE" /\ failed = "no" /\ ~split =>
    hp_data = "conn" /\ req # None /\ req.hr_port # 0

(* plm_http_parser_url() takes an absolute URL apart as it was put         *)
(* together, if there is a port in it or no colon in its path; it looks    *)
(* for the port in the path too.  It depends on no variable: asked while   *)
(* there is no request yet is asked often enough.                          *)
UrlSplit ==
  req = None => \A parts \in SmallParts :
    parts.port # <<>> \/ Find(parts.path, 1, ":") = 0 =>
      ParserUrl(Written(parts)) = parts
=============================================================================
