---------------------------- MODULE PublishOnce ----------------------------
(***************************************************************************)
(* What the Content Scheduler promises, without queues, workers, locks or  *)
(* Meta's containers: media of the posts go out one by one and stay out, a *)
(* post is recorded as published once and for good, only after a media of  *)
(* it is out, and only then may its linked campaign answer.                *)
(***************************************************************************)
EXTENDS Naturals, Sequences

CONSTANT Posts

VARIABLES
  out,        \* the media on Instagram, oldest first
  published,  \* the posts recorded as published
  live        \* the posts whose campaign answers

vars == <<out, published, live>>

Init == out = <<>> /\ published = {} /\ live = {}

\* A media of p, of whatever scheduling attempt, goes out behind the others.
Publish(p) ==
  /\ Len(out') = Len(out) + 1
  /\ \A i \in DOMAIN out : out'[i] = out[i]
  /\ out'[Len(out')].post = p
  /\ UNCHANGED <<published, live>>

\* The campaign is switched on with it, or the link fails and is made good later.
Record(p) ==
  /\ p \notin published
  /\ \E i \in DOMAIN out : out[i].post = p
  /\ published' = published \cup {p}
  /\ live' \in {live, live \cup {p}}
  /\ UNCHANGED out

Switch(p) ==
  /\ p \in published
  /\ live' \in {live \cup {p}, live \ {p}}
  /\ UNCHANGED <<out, published>>

Next == \E p \in Posts : Publish(p) \/ Record(p) \/ Switch(p)

Spec == Init /\ [][Next]_vars

-----------------------------------------------------------------------------
\* No scheduling attempt is out twice.
Once == \A i, j \in DOMAIN out : out[i] = out[j] => i = j

OnceSpec == Spec /\ []Once
=============================================================================
