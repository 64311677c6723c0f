------------------------------ MODULE HttpUrl ------------------------------
(***************************************************************************)
(* plm_http_parser_url() of src/plugin/http/plm_http_parser.c: an URL is   *)
(* split into scheme, host, port and path.  A URL is a sequence of colons, *)
(* slashes and other bytes, all of them "c"; a missing part is <<>>, as    *)
(* after the memset() of the result.                                       *)
(***************************************************************************)
EXTENDS Naturals, Sequences

NoParts == [scheme |-> <<>>, host |-> <<>>, port |-> <<>>, path |-> <<>>]

(* memchr() from position i on, 0 for NULL.                                *)
Find(url, i, byte) ==
  LET at == {j \in i .. Len(url) : url[j] = byte}
  IN IF at = {} THEN 0 ELSE CHOOSE j \in at : \A k \in at : j <= k

From(url, i) == SubSeq(url, i, Len(url))

(* State PLM_URL_PORT at i: what is there up to a slash, the path behind   *)
(* it.  Without a slash an error is returned, which the caller ignores.    *)
SplitPort(url, i, parts) ==
  LET slash == Find(url, i, "/")
  IN IF slash = 0 THEN parts
     ELSE [parts EXCEPT !.port = SubSeq(url, i, slash - 1),
                        !.path = From(url, slash + 1)]

(* Mutant of SplitHost: what is before a port is not ended by the colon.   *)
SplitHostToSlash(url, i, parts) ==
  LET colon == Find(url, i, ":")  slash == Find(url, i, "/") IN
  CASE colon # 0              -> SplitPort(url, colon + 1,
                                   [parts EXCEPT !.host = SubSeq(url, i, colon)])
    [] colon = 0 /\ slash # 0 -> [parts EXCEPT !.host = SubSeq(url, i, slash - 1),
                                               !.path = From(url, slash + 1)]
    [] OTHER                  -> parts

(* State PLM_URL_HOST behind the two slashes: up to a colon, wherever in   *)
(* the rest that is, or else up to a slash.                                *)
SplitHost(url, i, parts) ==
  LET colon == Find(url, i, ":")  slash == Find(url, i, "/") IN
  CASE colon # 0              -> SplitPort(url, colon + 1,
                                   [parts EXCEPT !.host = SubSeq(url, i, colon - 1)])
    [] colon = 0 /\ slash # 0 -> [parts EXCEPT !.host = SubSeq(url, i, slash - 1),
                                               !.path = From(url, slash + 1)]
    [] OTHER                  -> parts

(* The whole: without a colon all of it is the path.                       *)
ParserUrl(url) ==
  LET colon == Find(url, 1, ":")
      begun == [NoParts EXCEPT !.scheme = SubSeq(url, 1, colon - 1)]
  IN IF colon = 0 THEN [NoParts EXCEPT !.path = url]
     ELSE IF Len(url) >= colon + 2 /\ SubSeq(url, colon + 1, colon + 2) = <<"/", "/">>
          THEN SplitHost(url, colon + 3, begun)
          ELSE begun

(* Reference: what an absolute URL is made of, put together.               *)
Written(parts) ==
  parts.scheme \o <<":", "/", "/">> \o parts.host
    \o (IF parts.port = <<>> THEN <<>> ELSE <<":">> \o parts.port)
    \o <<"/">> \o parts.path

Words(bytes, from, to) == UNION {[1 .. n -> bytes] : n \in from .. to}
SmallParts ==
  [scheme : Words({"c"}, 1, 2), host : Words({"c"}, 1, 2), port : Words({"c"}, 0, 2),
   path : Words({"c", "/", ":"}, 0, 3)]
=============================================================================
