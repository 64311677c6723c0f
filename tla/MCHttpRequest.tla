--------------------------- MODULE MCHttpRequest ---------------------------
(* Small instances of HttpRequest: a URL with a host and a port, one       *)
(* without, and fields of each kind that the callback treats on its own.   *)
EXTENDS HttpRequest

MCUrls == {<<"/", "c">>, <<"c", ":", "/", "/", "c", ":", "c", "/">>}

Text(k, v, n) == [k |-> k, v |-> v, n |-> n]
MCFieldTexts ==
  {Text(<<"P", "r", "C", "o", "n">>, <<"k", "a">>, 0),
   Text(<<"c", "o", "l", "e", "n">>, <<"9">>, -1),
   Text(<<"H", "o">>, <<"c", ":", "c">>, 65536)}
=============================================================================
