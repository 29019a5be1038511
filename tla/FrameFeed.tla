------------------------------ MODULE FrameFeed ------------------------------
(***************************************************************************)
(* What a camera's frame ring promises its consumers, without the ring.    *)
(*                                                                         *)
(* The frames of a camera are numbered in the order they are taken.  A     *)
(* frame may be announced once, after it is complete.  A consumer asks for *)
(* announced frames in increasing order, may skip any of them, and each    *)
(* question has one answer: the whole frame it asked for, or a refusal,    *)
(* which is allowed only when at least Depth younger frames have been      *)
(* started.                                                                *)
(***************************************************************************)
EXTENDS Naturals

CONSTANTS
  Depth,      \* how many frames the feed remembers
  Parts,      \* the pieces a frame is copied in
  Readers     \* the consumers

VARIABLES
  latest,     \* number of the youngest frame that was started
  announced,  \* numbers of the frames consumers were told about
  asked,      \* [Readers -> number of the last frame asked for]
  answer      \* [Readers -> the answer to that question]

feedVars == <<latest, announced, asked, answer>>

\* The frame with number s: every part of it was taken at s.
Whole(s) == [p \in Parts |-> s]
Blank    == Whole(0)

Nothing == [kind |-> "none",    frame |-> Blank]
Pending == [kind |-> "pending", frame |-> Blank]
Refusal == [kind |-> "refused", frame |-> Blank]
Frame(s) == [kind |-> "frame",  frame |-> Whole(s)]

TooOld(s) == latest >= s + Depth

FeedInit ==
  /\ latest = 0
  /\ announced = {}
  /\ asked = [r \in Readers |-> 0]
  /\ answer = [r \in Readers |-> Nothing]

Take ==
  /\ latest' = latest + 1
  /\ UNCHANGED <<announced, asked, answer>>

Announce ==
  /\ latest \notin announced
  /\ announced' = announced \cup {latest}
  /\ UNCHANGED <<latest, asked, answer>>

Ask(r, s) ==
  /\ answer[r] # Pending
  /\ s \in announced
  /\ s > asked[r]
  /\ asked' = [asked EXCEPT ![r] = s]
  /\ \/ answer' = [answer EXCEPT ![r] = Pending]
     \/ TooOld(s) /\ answer' = [answer EXCEPT ![r] = Refusal]
  /\ UNCHANGED <<latest, announced>>

Answer(r) ==
  /\ answer[r] = Pending
  /\ \/ answer' = [answer EXCEPT ![r] = Frame(asked[r])]
     \/ TooOld(asked[r]) /\ answer' = [answer EXCEPT ![r] = Refusal]
  /\ UNCHANGED <<latest, announced, asked>>

FeedNext ==
  \/ Take
  \/ Announce
  \/ \E r \in Readers : Answer(r) \/ \E s \in announced : Ask(r, s)

FeedSpec == FeedInit /\ [][FeedNext]_feedVars
=============================================================================
