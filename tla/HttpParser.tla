----------------------------- MODULE HttpParser -----------------------------
(***************************************************************************)
(* The resumable header parser of the http plugin                          *)
(* (src/plugin/http/plm_http_parser.c): plm_http_parser_req() and          *)
(* plm_http_parser_resp() are given the bytes that have arrived, report    *)
(* the lines that are complete to the user's callbacks, say in hp_parsed   *)
(* how many bytes they are done with, and go on from hp_state when they    *)
(* are called again with the rest.                                         *)
(*                                                                         *)
(* A byte is a member of a small set: the text of a line is one byte       *)
(* ("line", a request or status line; "field", a text with a colon;        *)
(* "junk", one that cannot be parsed).  The caller is the one the          *)
(* interface is made for: it keeps what was not parsed and appends what    *)
(* arrives, divided in any way.                                            *)
(***************************************************************************)
EXTENDS Naturals, Sequences, FiniteSets

CONSTANTS
  Fields      \* bound: header fields of a message

ASSUME HttpParserAssumption == Fields \in Nat \ {0}

VARIABLES
  message,   \* the bytes on the wire
  sent,      \* how many of them have arrived
  buf,       \* what the caller holds, and hands over: s_str, s_len
  pos,       \* how far s_str has been moved in this call
  calling,   \* inside the parser
  hp_state, hp_parsed,
  result,    \* what the last call returned
  taken,     \* history: the sum of hp_parsed over all calls
  reported,  \* history: where in the message the reported lines began
  hdr_done,  \* history: calls of hp_on_hdr_done
  broke,     \* history: a callback has asked for a break
  together,  \* history: a call was given two line ends before the blank line
  apart      \* history: a call was given all that comes before the blank line

hist == <<taken, reported, hdr_done, broke>>
ways == <<together, apart>>
vars == <<message, sent, buf, pos, calling, hp_state, hp_parsed, result, hist, ways>>

(* The wire: a first line, at least one field, the blank line, a body.     *)
HeaderEnd == 3 * (Fields + 1) + 2
Messages ==
  {[i \in 1 .. HeaderEnd + 1 |->
      IF i > HeaderEnd THEN "body"
      ELSE IF i = HeaderEnd THEN last
      ELSE IF i = HeaderEnd - 1 THEN "cr"
      ELSE IF i % 3 = 1 THEN text[i \div 3]
      ELSE IF i % 3 = 2 THEN "cr" ELSE "lf"] :
   text \in {f \in [0 .. Fields -> {"line", "field", "junk"}] :
               f[0] # "field" /\ \A i \in 1 .. Fields : f[i] # "line"},
   last \in {"lf", "junk"}}

(* plm_http_parser_init().                                                 *)
Init ==
  /\ message \in Messages /\ sent = 0
  /\ buf = <<>> /\ pos = 0 /\ calling = FALSE
  /\ hp_state = "NONE" /\ hp_parsed = 0 /\ result = "none"
  /\ taken = 0 /\ reported = <<>> /\ hdr_done = 0 /\ broke = FALSE
  /\ together = FALSE /\ apart = FALSE

-----------------------------------------------------------------------------
(* The call, and what it returns to.                                       *)

(* Line ends among the bytes, the one of the blank line left out.          *)
LineEnds(bytes) ==
  Cardinality({i \in DOMAIN bytes :
                 bytes[i] = "lf" /\ (i > 2 => bytes[i - 2] # "lf")})

(* n more bytes arrive and the parser is called with all that is unparsed. *)
Call(n) ==
  /\ ~calling /\ result \in {"none", "AGAIN", "BREAK"}
  /\ sent + n <= Len(message)
  /\ buf' = buf \o SubSeq(message, sent + 1, sent + n)
  /\ sent' = sent + n
  /\ together' = (together \/ LineEnds(buf') > 1)
  /\ apart' = (apart \/ sent' = HeaderEnd - 2)
  /\ pos' = 0 /\ hp_parsed' = 0 /\ calling' = TRUE
  /\ UNCHANGED <<message, hp_state, result, hist>>

(* hp_parsed bytes are done with; the caller keeps the others.             *)
Return(rc) ==
  /\ result' = rc /\ calling' = FALSE
  /\ taken' = taken + hp_parsed'
  /\ buf' = SubSeq(buf, hp_parsed' + 1, Len(buf))
  /\ UNCHANGED <<message, sent, ways>>

GoOn == calling' = TRUE /\ UNCHANGED <<message, sent, buf, result, taken, ways>>

(* Where the current line ends: memchr(str, '\n', len), 0 for NULL.        *)
LineFeed ==
  LET lfs == {i \in pos + 1 .. Len(buf) : buf[i] = "lf"}
  IN IF lfs = {} THEN 0 ELSE CHOOSE i \in lfs : \A j \in lfs : i <= j

LineIs(text) == buf[pos + 1] = text

(* Only a field and a status line are asked for the CR before their end.   *)
FieldIs == LineIs("field") /\ buf[LineFeed - 1] = "cr"

(* The line is given to its callback.                                      *)
Report == reported' = Append(reported, sent - Len(buf) + pos)

Incomplete ==
  /\ calling /\ hp_state \in {"NONE", "LINE_DONE"} /\ LineFeed = 0
  /\ UNCHANGED <<pos, hp_state, hp_parsed, reported, hdr_done, broke>>
  /\ Return("AGAIN")

-----------------------------------------------------------------------------
(* plm_http_parser_req_line() and plm_http_parser_status_line().           *)

BadLine ==
  /\ calling /\ hp_state = "NONE" /\ LineFeed # 0 /\ ~LineIs("line")
  /\ UNCHANGED <<pos, hp_state, hp_parsed, reported, hdr_done, broke>>
  /\ Return("ERROR")

(* Mutant of FirstLine: the line is not counted as parsed.                 *)
FirstLineUncounted ==
  /\ calling /\ hp_state = "NONE" /\ LineFeed # 0 /\ LineIs("line")
  /\ Report
  /\ hp_parsed' = 0 /\ pos' = LineFeed /\ hp_state' = "LINE_DONE"
  /\ broke' = FALSE
  /\ IF Len(buf) > pos' THEN GoOn ELSE Return("AGAIN")
  /\ UNCHANGED hdr_done

FirstLine ==
  /\ calling /\ hp_state = "NONE" /\ LineFeed # 0 /\ LineIs("line")
  /\ Report
  /\ hp_parsed' = LineFeed /\ pos' = LineFeed /\ hp_state' = "LINE_DONE"
  /\ \/ broke' = TRUE /\ Return("BREAK")
     \/ /\ UNCHANGED broke
        /\ IF Len(buf) > pos' THEN GoOn ELSE Return("AGAIN")
  /\ UNCHANGED hdr_done

-----------------------------------------------------------------------------
(* plm_http_parser_field(): a turn of its loop.                            *)

BadField ==
  /\ calling /\ hp_state = "LINE_DONE" /\ LineFeed # 0 /\ ~FieldIs
  /\ UNCHANGED <<pos, hp_state, hp_parsed, reported, hdr_done, broke>>
  /\ Return("ERROR")

FieldBreaks ==
  /\ calling /\ hp_state = "LINE_DONE" /\ LineFeed # 0 /\ FieldIs
  /\ Report
  /\ hp_parsed' = hp_parsed + LineFeed - pos
  /\ broke' = TRUE /\ Return("BREAK")
  /\ UNCHANGED <<pos, hp_state, hdr_done>>

(* What is looked at after a field that ends at hp_parsed = p: s_str moves *)
(* by the whole of p, also by what it has moved in this call already.      *)
After(p) == pos + p
Peek(i) == IF i \in DOMAIN buf THEN buf[i] ELSE "none"

(* Mutant of Field: the byte after it is not looked at, the blank line is  *)
(* left for the next turn.                                                 *)
FieldSkipsBlank ==
  LET p == hp_parsed + LineFeed - pos IN
  /\ calling /\ hp_state = "LINE_DONE" /\ LineFeed # 0 /\ FieldIs
  /\ Report
  /\ hp_parsed' = p /\ pos' = After(p)
  /\ IF Len(buf) > After(p) THEN GoOn ELSE Return("AGAIN")
  /\ UNCHANGED <<hp_state, hdr_done, broke>>

(* The byte after the field: another field, the blank line or its CR, the  *)
(* end of the bytes, or, s_len having wrapped around, memory behind them.  *)
Field ==
  LET p == hp_parsed + LineFeed - pos
      a == After(p)
  IN
  /\ calling /\ hp_state = "LINE_DONE" /\ LineFeed # 0 /\ FieldIs
  /\ Report
  /\ pos' = a
  /\ \/ /\ a >= Len(buf)
        /\ hp_parsed' = p /\ UNCHANGED <<hp_state, hdr_done>>
        /\ Return(IF a = Len(buf) THEN "AGAIN" ELSE "OUTSIDE")
     \/ /\ Peek(a + 1) = "cr" /\ Peek(a + 2) # "lf"
        /\ hp_parsed' = p + 1 /\ hp_state' = "HDR_CR"
        /\ Return("AGAIN") /\ UNCHANGED hdr_done
     \/ /\ Peek(a + 1) = "cr" /\ Peek(a + 2) = "lf"
        /\ hp_parsed' = p + 2 /\ hp_state' = "HDR_DONE"
        /\ hdr_done' = hdr_done + 1 /\ Return("DONE")
     \/ /\ a < Len(buf) /\ Peek(a + 1) # "cr"
        /\ hp_parsed' = p /\ GoOn /\ UNCHANGED <<hp_state, hdr_done>>
  /\ UNCHANGED broke

-----------------------------------------------------------------------------
(* plm_http_parser_req() and plm_http_parser_resp() called between the two *)
(* bytes of the blank line.                                                *)
HeaderCr ==
  /\ calling /\ hp_state = "HDR_CR" /\ buf[1] = "lf"
  /\ hp_parsed' = hp_parsed + 1 /\ pos' = 1 /\ hp_state' = "HDR_DONE"
  /\ Return("DONE")
  /\ UNCHANGED <<reported, hdr_done, broke>>

HeaderCrBad ==
  /\ calling /\ hp_state = "HDR_CR" /\ buf[1] # "lf"
  /\ hp_parsed' = hp_parsed + 1
  /\ Return("ERROR")
  /\ UNCHANGED <<pos, hp_state, reported, hdr_done, broke>>

(* There is nothing more to parse, or nothing more to call with.           *)
Terminated ==
  /\ ~calling
  /\ \/ result \in {"DONE", "ERROR", "OUTSIDE"}
     \/ sent = Len(message)
  /\ UNCHANGED vars

Next ==
  \/ \E n \in 1 .. Len(message) : Call(n)
  \/ Incomplete \/ BadLine \/ FirstLine \/ BadField \/ FieldBreaks \/ Field
  \/ HeaderCr \/ HeaderCrBad \/ Terminated

Spec == Init /\ [][Next]_vars

-----------------------------------------------------------------------------
(* Properties.                                                             *)

(* Every variable keeps the shape that the code gives it: the parser's     *)
(* state is one of its enumeration, offsets stay inside what was received  *)
(* (plm_http_parser.c).                                                    *)
TypeOK ==
  /\ message \in Messages /\ sent \in 0 .. Len(message)
  /\ Len(buf) <= sent /\ pos \in 0 .. 2 * HeaderEnd
  /\ calling \in BOOLEAN /\ hp_parsed \in 0 .. HeaderEnd
  /\ hp_state \in {"NONE", "LINE_DONE", "HDR_CR", "HDR_DONE"}
  /\ result \in {"none", "AGAIN", "BREAK", "ERROR", "DONE", "OUTSIDE"}
  /\ taken \in Nat /\ Len(reported) <= Fields + 1
  /\ hdr_done \in 0 .. 1 /\ broke \in BOOLEAN
  /\ together \in BOOLEAN /\ apart \in BOOLEAN

InOrder == reported = [i \in 1 .. Len(reported) |-> 3 * (i - 1)]

(* "bytes parsed every time" (plm_http_parser.h:69).  Whatever way the     *)
(* bytes are divided into calls, a header in one read and memory behind    *)
(* the bytes included, what the parser says it is done with is as long as  *)
(* the lines it has reported and the part of the blank line it recognised. *)
(* They are these lines, each once and in their order, as long as no call  *)
(* was given more than one line end before the blank line: after a second  *)
(* one s_str goes too far (plm_http_parser.c:221-222).                     *)
ParsedIsReported ==
  ~calling /\ result # "ERROR" =>
    /\ taken = 3 * Len(reported) + CASE hp_state = "HDR_CR"   -> 1
                                     [] hp_state = "HDR_DONE" -> 2
                                     [] OTHER                 -> 0
    /\ ~together => InOrder

(* What the interface promises (plm_http_parser.h:69) and the code does    *)
(* not keep: the lines are in their order however they arrive.             *)
ReportedInOrder == ~calling /\ result # "ERROR" => InOrder

(* The verdict on a message that has arrived line by line, the lines cut   *)
(* anywhere: with all of it there, one with junk is not done.  One without *)
(* is done, with all its fields reported and its body left, but for one    *)
(* cut: after a call that ended with the last field the blank line is      *)
(* taken for a field without a colon (plm_http_parser.c:197-201), and the  *)
(* good message is an error.                                               *)
Verdict ==
  ~calling /\ sent = Len(message) /\ ~broke /\ ~together =>
    IF \E i \in DOMAIN message : message[i] = "junk" THEN result # "DONE"
    ELSE IF apart THEN result = "ERROR"
    ELSE result = "DONE" /\ taken = HeaderEnd /\ Len(reported) = Fields + 1

(* "change back to conn in plm_http_on_hdr_done" (plm_http_request.c:284): *)
(* the user relies on that callback for every header that is done.         *)
HeaderDoneCalled == result = "DONE" => hdr_done = 1
=============================================================================
