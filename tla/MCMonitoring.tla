---------------------------- MODULE MCMonitoring -----------------------------
(* The instances of Monitoring that TLC checks. *)
EXTENDS Monitoring

MCProfiles ==
  [k \in Kinds |-> [mapped |-> Targets[k], default |-> [t \in {} |-> Null]]]

\* Two unclean names that keep the same.
MCDigest(name) == IF name \in {"vpn 1", "vpn 2"} THEN "vpn-1:0" ELSE name

Row(kind, id, at, actor, asset, file, mark) ==
  [kind |-> kind, id |-> id, at |-> at, actor |-> actor, asset |-> asset, file |-> file,
   mark |-> mark, unread |-> {}, raises |-> Null]

Vpn == Row("asset", Null, 1, Null, "vpn", Null, "exposed")
Login == Row("login", "vpn 1", 1, "u", "vpn", Null, "one_condition")
Read == Row("file_access", "e1", 1, "u", "vpn", "f1", "sensitive")
Illegible(row) == [row EXCEPT !.unread = Targets[row.kind]]

\* A read of another file, one window later, by a row without an id and about an asset nobody
\* listed; and rows that spoil a poll: of the first or last year, of an inventory dated far
\* ahead, with a name that collides, with a user who cannot be encoded.  Each may come twice,
\* or make a file too long.
MCRows ==
  {[Read EXCEPT !.at = 3, !.file = "f3", !.asset = "other", !.unread = {"id", "mark"}],
   [Read EXCEPT !.raises = "OverflowError"], [Vpn EXCEPT !.at = 4],
   [Vpn EXCEPT !.asset = "vpn 2"], [Login EXCEPT !.actor = "half"]}

\* Files with nothing to read in them yet; with the start of an incident, two reads of which
\* have one id; and with an asset listed, and a read sent, twice, and a login that is old for
\* Okta when time goes on.
MCInventories ==
  {<<Illegible(Login)>> \o [i \in 1..4 |-> Illegible(Read)],
   <<Vpn, Login, Read, [Read EXCEPT !.at = 2, !.file = "f2", !.mark = "ordinary"]>>,
   <<Vpn, [Vpn EXCEPT !.at = 2, !.mark = "patched"],
     [Login EXCEPT !.at = 0], Read, Read>>}

MCDocuments == {WithShadow({[asset |-> Slug("demo"), at |-> 1, mark |-> "critical"]}, {}, 1,
                           [digest |-> <<>>, rows_read |-> 0, live |-> <<>>])}
MCConfig ==
  [window_seconds |-> 1, distinct_file_threshold |-> 2, login_lookback_seconds |-> 1,
   sensitive_file_minimum |-> 1, stale_asset_hours |-> 1, identity_conditions |-> "any"]
=============================================================================
