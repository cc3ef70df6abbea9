----------------------------- MODULE DemoDriver -----------------------------
(***************************************************************************)
(* main.cpp: two threads go through their scripts on four gateways, main   *)
(* joins them and returns, which destroys the buffers.  The engine thread  *)
(* is detached and runs until the process ends.                            *)
(***************************************************************************)
EXTENDS MatchingSystem

CONSTANTS DemoThread, FeedThread  \* the threads of lines 41 and 81

ASSUME DemoAssumption == Threads = {DemoThread, FeedThread} /\ DemoThread # FeedThread

VARIABLES pc,         \* the line of its script each thread is at
          read,       \* outbound_ringbuffer_read_p of each gateway
          returned,   \* what each thread's last place returned
          main_thread \* "join", "destroyed" or "exited"

threads == <<pc, read, returned>>
demo_vars == <<system, threads, main_thread>>

Mints(g)             == [do |-> "mint", gateway |-> g]
Places(g, p, v, s)   == [do |-> "place", gateway |-> g, price |-> p, volume |-> v, side |-> s]
Awaits(g)            == [do |-> "await", gateway |-> g]
Cancels(g)           == [do |-> "cancel", gateway |-> g]
Modifies(g, n)       == [do |-> "modify", gateway |-> g, volume |-> n]

\* What the lambdas do.  The acknowledgement of the first sell is never read.
Script == [t \in Threads |->
  IF t = DemoThread
    THEN <<Mints(0), Places(0, 100, 10, Book!Sell), Mints(1), Places(1, 110, 5, Book!Buy),
           Awaits(1), Mints(2), Places(2, 90, 7, Book!Buy), Awaits(2),
           Cancels(2), Awaits(2), Cancels(2), Awaits(2)>>
    ELSE <<Places(3, 95, 10, Book!Buy), Awaits(3), Modifies(3, 6), Awaits(3),
           Modifies(3, 100), Awaits(3), Cancels(3), Awaits(3)>>]

Finished(t) == pc[t] > Len(Script[t])
Line(t) == Script[t][pc[t]]

DemoInit ==
  /\ Init
  /\ pc = [t \in Threads |-> 1]
  /\ read = [g \in Gateways |-> 0]
  /\ returned = [t \in Threads |-> NoId]
  /\ main_thread = "join"

Place(t, l) ==
  /\ l.do = "place"
  /\ \/ /\ l.gateway \in Live
        /\ PlaceLive(t, l.price, l.volume, l.side)
        /\ returned' = [returned EXCEPT ![t] = minting[t].id]
     \/ \E id \in ExternalIds :
          /\ PlaceReplay(t, l.gateway, id, l.price, l.volume, l.side)
          /\ returned' = [returned EXCEPT ![t] = id]
  /\ UNCHANGED read

CallAgain(t, l) ==
  /\ \/ l.do = "mint" /\ Mint(t, l.gateway)
     \/ l.do = "cancel" /\ Cancel(t, l.gateway, returned[t])
     \/ l.do = "modify" /\ Modify(t, l.gateway, returned[t], l.volume)
  /\ UNCHANGED <<read, returned>>

\* A poll too many.
Await_M(t, l) ==
  /\ l.do = "await"
  /\ read[l.gateway] < Len(outbound[l.gateway])
  /\ read' = [read EXCEPT ![l.gateway] = @ + 2]
  /\ UNCHANGED <<system, returned>>

\* while (!read_from_ring_buffer(...)) {}
Await(t, l) ==
  /\ l.do = "await"
  /\ read[l.gateway] < Len(outbound[l.gateway])
  /\ read' = [read EXCEPT ![l.gateway] = @ + 1]
  /\ UNCHANGED <<system, returned>>

Step(t) ==
  /\ ~Finished(t)
  /\ Place(t, Line(t)) \/ CallAgain(t, Line(t)) \/ Await(t, Line(t))
  /\ pc' = [pc EXCEPT ![t] = @ + 1]
  /\ UNCHANGED main_thread

\* The threads are joined, and main's locals are destroyed.
JoinAll ==
  /\ main_thread = "join"
  /\ \A t \in Threads : Finished(t)
  /\ main_thread' = "destroyed"
  /\ UNCHANGED <<system, threads>>

EndProcess ==
  /\ main_thread = "destroyed"
  /\ main_thread' = "exited"
  /\ UNCHANGED <<system, threads>>

EngineRuns ==
  /\ main_thread # "exited"
  /\ Engine \/ PollAgain
  /\ UNCHANGED <<threads, main_thread>>

Exited == main_thread = "exited" /\ UNCHANGED demo_vars

DemoNext == (\E t \in Threads : Step(t)) \/ JoinAll \/ EndProcess \/ EngineRuns \/ Exited

DemoSpec == DemoInit /\ [][DemoNext]_demo_vars

\* The threads of the process run.
FairDemoSpec ==
  /\ DemoSpec
  /\ \A t \in Threads : WF_demo_vars(Step(t))
  /\ WF_demo_vars(JoinAll \/ EndProcess)
  /\ WF_demo_vars(EngineRuns)

-----------------------------------------------------------------------------

\* The four gateways, and the prices, volumes and id the scripts call them with.
Configuration ==
  /\ 0..3 \subseteq Gateways
  /\ Live = 0..2 /\ 3 \in Observed /\ Silenced = {}
  /\ ExternalIds = {88421}
  /\ {90, 95, 100, 110} \subseteq Prices /\ {5, 6, 7, 10, 100} \subseteq Volumes
  /\ MaxCalls >= 9

\* The answers main.cpp expects, in whatever order the two threads' calls reach the
\* engine: the buy of 5 is filled, cancels and the reduction succeed, the second
\* cancel and the growth fail.
Expected == [g \in 0..3 |->
  CASE g = 0 -> <<FALSE>>
    [] g = 1 -> <<TRUE>>
    [] g = 2 -> <<FALSE, TRUE, FALSE>>
    [] g = 3 -> <<FALSE, TRUE, FALSE, TRUE>>]

AnswersAsExpected ==
  \A g \in 0..3 : IsPrefix([k \in DOMAIN outbound[g] |-> outbound[g][k].fulfilled], Expected[g])

\* Neither thread waits for an acknowledgement that does not come, and the process ends.
DemoEnds == <>(main_thread = "exited")
=============================================================================
