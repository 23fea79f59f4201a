---------------------------- MODULE MCHostSession ----------------------------
(***************************************************************************)
(* An instance of HostSession for TLC.                                     *)
(***************************************************************************)
EXTENDS HostSession, TLC

CONSTANTS q1, a1, a2, c1, c2

\* An open question, an approval that can be shown in full and one that cannot.
KindOf == q1 :> "text_question" @@ a1 :> "permission" @@ a2 :> "permission"
LikeOf == q1 :> {} @@ a1 :> {a1} @@ a2 :> {a2}

\* The agent asks the question and for one of the approvals.
Few == gateway[a1] = "none" \/ gateway[a2] = "none"

\* Cues are asked for in sessions in which nothing is projected or commanded: the
\* lanes share the frame loop and the connection, and only turns hold the frame
\* loop at an await.  The drop of the phone before ends before the wearer
\* has seen an item.
Separate ==
    /\ before => made <= 1 /\ cueUsed = {} /\ seen = {}
    /\ cueUsed = {} \/ (made = 0 /\ commands = {})

\* The phone gives two commands to the first session, say an answer behind an
\* interrupt or a second answer to the same ask, and one to the session of another
\* turn.  Ids are alike, so c1 is the first.
TwoCommands == receipt[c2] # "none" => receipt[c1] # "none" /\ last <= 1
=============================================================================
