------------------------------ MODULE MCControl -------------------------------
(* The instances of Control that TLC checks. *)
EXTENDS Control

\* The order of the ids of the events below.
MCHash(id) ==
  CHOOSE n \in 1..6 : <<"f0", "l1", "p0", "q1", "r1", "x1">>[n] = id

Transfer(id, at, class) ==
  [id |-> id, source |-> "s1", at |-> at, kind |-> "egress", result |-> "success",
   actor |-> "a", session |-> "s", asset |-> None, weak |-> FALSE,
   target_type |-> "personal", class |-> class]

Login(id, at, result) ==
  [Transfer(id, at, "unknown") EXCEPT !.kind = "vpn_login", !.result = result,
                                      !.asset = "vpn", !.weak = TRUE]

MCOneEvent == {Transfer("x1", 1, "internal")}

\* A failed login, a weak login, what was read after it and what left, some of it before;
\* and a failed login at another source, reported under the id of a transfer.
MCRawEvents ==
  {Login("f0", 0, "failure"), Login("l1", 1, "success"),
   [Transfer("r1", 1, "restricted") EXCEPT !.kind = "file_read"],
   Transfer("p0", 0, "restricted"), Transfer("q1", 1, "restricted"),
   Transfer("x1", 1, "internal"), [Login("x1", 0, "failure") EXCEPT !.source = "s2"]}

MCPostures ==
  [p1 |-> [observed_at |-> 0, advised_at |-> 0, published |-> 0, fetched |-> {0},
           controls |-> {0}, kev |-> {},
           advisories |-> {[product |-> "p", cve |-> "c", introduced |-> 1, fixed |-> 3]},
           assets |-> {[id |-> "vpn", product |-> "p", version |-> 2, exposed |-> "true",
                        privileged |-> "true", sensitive |-> "true"]}]]

Sheet(marks) == [kind |-> "sheet", text |-> marks]
Xlsx(split, parts) ==
  [format |-> "xlsx", header |-> "match", body |-> "whole", structure |-> {},
   split |-> split, parts |-> parts]

Signed(id, question, docs, issued) ==
  [question |-> question, docs |-> docs, consent |-> TRUE,
   label |-> [claim |-> Claim(id, <<question, docs>>), issued |-> issued]]

\* A clean file, a file with a secret across two runs of text, and a clean file under the
\* label of another request.
MCBundles ==
  [b1 |-> Signed("b1", {}, <<Xlsx({}, <<Sheet({})>>)>>, 0),
   b2 |-> Signed("b2", {}, <<Xlsx({"secret"}, <<Sheet({})>>)>>, 0),
   b3 |-> Signed("b1", {}, <<Xlsx({}, <<Sheet({})>>)>>, 1)]
MCNoBundles == <<>>
=============================================================================
