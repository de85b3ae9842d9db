------------------------------ MODULE MCPiSession ------------------------------
(***************************************************************************)
(* PiSession for TLC.  Messages: 1 is the first user message of a session, *)
(* 2 an answer with the next question, 3 a first message since edited, 4   *)
(* the prompt of a delegation.                                             *)
(***************************************************************************)
EXTENDS PiSession

CONSTANTS session, thread, cwd, c0, c1, c2, c3

Keys    == {session, thread}
KeysCwd == {session, thread, cwd}

Provider(h) == [kind |-> "provider", key |-> session, thread |-> h]
Delegation  == [kind |-> "thread", key |-> thread, thread |-> <<4>>]
OneShot     == [kind |-> "isolated", key |-> cwd, thread |-> <<4>>]

AnyCall     == {Provider(<<1, 2>>), Delegation}
OneShots    == {OneShot}
Sessions    == {Provider(<<1, 2>>)}

Nothing == [k \in Key |-> NoEntry]
Linear  == [Nothing EXCEPT ![session] = [cid |-> c0, hashes |-> <<1>>]]
Edited  == [Nothing EXCEPT ![session] = [cid |-> c0, hashes |-> <<3>>],
                           ![thread]  = [cid |-> c1, hashes |-> NoHashes]]

LinearOrEdited == {Linear, Edited}
EditedOnly == {Edited}
NewOnly    == {Nothing}

\* A second window on the session has edited its first message.
OtherWindow == {[cid |-> c0, hashes |-> <<3>>]}
NoOther     == {}
=============================================================================
