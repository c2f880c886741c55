-------------------------- MODULE MCConversations --------------------------
(***************************************************************************)
(* Instances of Conversations for TLC.                                     *)
(***************************************************************************)
EXTENDS Conversations, TLC

CONSTANTS r1, r2, r3, c1, k1, k2, s1, s2

\* Two requests and a reset of one conversation, and a request of another.
NamedKeys == (r1 :> k1) @@ (r2 :> k1) @@ (r3 :> k2) @@ (c1 :> k1)

\* The two take the conversation as they find it, the third insists that it
\* exists.
AskedModes == (r1 :> "auto") @@ (r2 :> "auto") @@ (r3 :> "continue")

\* So the two are alike, and one session is as good as another.
AlikeRequestsAndSessions == Permutations({r1, r2}) \union Permutations(Sessions)

\* Requests of one conversation ...
OneKey == [x \in Requests \union Resets |-> k1]

\* ... whose mode lets them have it.
AutoModes == [r \in Requests |-> "auto"]
=============================================================================
