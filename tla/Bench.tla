------------------------------- MODULE Bench -------------------------------
(***************************************************************************)
(* hi-im-bench, the load generator: threads that send frames to the Hub    *)
(* for a while, a thread that counts what comes back, and a main thread    *)
(* that starts, joins and reports.  In publish mode the frames go from     *)
(* publishers on the forward plane to a subscriber on the backend plane;   *)
(* in unicast mode main itself sends, on the backend plane, to a receiver  *)
(* on the forward plane.                                                   *)
(*                                                                         *)
(* Time is a countdown per deadline.  All sockets are blocking.  The Hub   *)
(* is external here: it answers handshakes, routes or drops frames, and    *)
(* may go down.  Nobody else sends to the bench's receiving thread.        *)
(***************************************************************************)
EXTENDS Wire, FiniteSets

CONSTANTS
  Publishers,   (* opt.publishers threads; one of them is main's own
                   sending in unicast mode                                 *)
  Warmup,       (* what main sleeps before it lets the sending begin       *)
  Duration,     (* opt.duration                                            *)
  PayloadSize,  (* opt.payload_size                                        *)
  Target,       (* frames received that make a publish run a PASS          *)
  MaxFrames     (* bound: frames sent, all together                        *)

ASSUME BenchAssumption ==
  /\ Publishers # {} /\ IsFiniteSet(Publishers) /\ {"main", "sub"} \cap Publishers = {}
  /\ {Warmup, Duration, PayloadSize, Target, MaxFrames} \subseteq Nat

Main == "main"
Sub == "sub"
Threads == {Main, Sub} \cup Publishers
ReceiverNid == 20002

VARIABLES
  mode,       (* opt.mode                                                  *)
  pc,         (* thread -> where it is                                     *)
  left,       (* thread -> time until its deadline                         *)
  running, measuring,         (* the shared flags                          *)
  sent, recv, (* sent_count and recv_count                                 *)
  exit,       (* main's exit code, or -1                                   *)
  got,        (* frames of the subscriber's last recv                      *)
  aligned,    (* its FrameBuffer starts at the beginning of a frame        *)
  hubUp, subscribed,          (* the Hub, and its subscriber table         *)
  inHub, socket               (* frames on their way, and readable         *)

threadVars == <<mode, pc, left, running, measuring, sent, recv, exit, got, aligned>>
hubVars == <<hubUp, subscribed, inHub, socket>>
benchVars == <<threadVars, hubVars>>

BenchTypeOK ==
  /\ mode \in {"publish", "unicast"}
  /\ pc \in [Threads -> {"none", "sleep", "join", "joinsub", "done", "connect", "auth",
                         "subscribe", "loop", "recv", "count", "write", "ended", "killed"}]
  /\ left \in [Threads -> 0 .. Warmup + Duration]
  /\ {running, measuring, aligned, hubUp, subscribed} \subseteq BOOLEAN
  /\ {sent, recv, got, inHub, socket} \subseteq 0 .. MaxFrames
  /\ exit \in {-1, 0, 1}

BenchInit ==
  /\ mode \in {"publish", "unicast"}
  /\ pc = [t \in Threads |-> CASE t = Main -> "sleep" [] t = Sub -> "connect" [] OTHER -> "none"]
  /\ left = [t \in Threads |-> IF t = Main THEN Warmup ELSE 0]
  /\ running = TRUE /\ measuring = FALSE
  /\ sent = 0 /\ recv = 0 /\ exit = -1
  /\ got = 0 /\ aligned = TRUE
  /\ hubUp = TRUE /\ subscribed = FALSE
  /\ inHub = 0 /\ socket = 0

Senders == IF mode = "publish" THEN Publishers ELSE {CHOOSE p \in Publishers : TRUE}

Goto(t, label) == pc' = [pc EXCEPT ![t] = label]

\* The thread returns.  In unicast mode nobody looks at running, and main does not
\* clear it.
GiveUp(t) ==
  /\ Goto(t, "ended")
  /\ running' = (running /\ mode = "unicast" /\ t # Sub)
  /\ UNCHANGED <<mode, left, measuring, sent, recv, exit, got, aligned, hubVars>>

\* Publish mode stops early when a thread has failed.
TimeIsUp(t) == left[t] = 0 \/ (mode = "publish" /\ ~running)

-----------------------------------------------------------------------------
(* ConnectTcp and Handshake                                                 *)

\* Mutant: a refused connection is tried again.
ConnectRetries(t) ==
  /\ pc[t] = "connect" /\ hubUp
  /\ Goto(t, "auth")
  /\ UNCHANGED <<mode, left, running, measuring, sent, recv, exit, got, aligned, hubVars>>

Connect(t) ==
  /\ pc[t] = "connect"
  /\ \/ /\ hubUp /\ Goto(t, "auth")
        /\ UNCHANGED <<mode, left, running, measuring, sent, recv, exit, got, aligned, hubVars>>
     \/ GiveUp(t)

\* AUTH is acknowledged, or the Hub closes the connection.  main's unicast deadline
\* starts here.
Authenticate(t) ==
  /\ pc[t] = "auth"
  /\ \/ /\ hubUp
        /\ Goto(t, IF t = Sub THEN "subscribe" ELSE "loop")
        /\ left' = IF t # Sub /\ mode = "unicast" THEN [left EXCEPT ![t] = Duration] ELSE left
        /\ UNCHANGED <<mode, running, measuring, sent, recv, exit, got, aligned, hubVars>>
     \/ GiveUp(t)

\* The SUB_ACK is read, with k frames and perhaps a part of the next one behind it:
\* they are in Handshake's own FrameBuffer, which ends with it.
Subscribed ==
  /\ pc[Sub] = "subscribe" /\ subscribed
  /\ \E k \in 0 .. socket :
       /\ socket' = socket - k
       /\ aligned' \in IF k < socket THEN BOOLEAN ELSE {TRUE}
  /\ Goto(Sub, "loop")
  /\ left' = [left EXCEPT ![Sub] = IF mode = "publish" THEN Warmup + Duration ELSE Duration]
  /\ UNCHANGED <<mode, running, measuring, sent, recv, exit, got, hubUp, subscribed, inHub>>

SubscribeFails == pc[Sub] = "subscribe" /\ ~hubUp /\ GiveUp(Sub)

-----------------------------------------------------------------------------
(* The subscriber's and the receiver's loop                                 *)

SubLoop ==
  /\ pc[Sub] = "loop"
  /\ Goto(Sub, IF TimeIsUp(Sub) THEN "ended" ELSE "recv")
  /\ UNCHANGED <<mode, left, running, measuring, sent, recv, exit, got, aligned, hubVars>>

\* recv blocks until there is something to read or the connection ends.
Recv ==
  /\ pc[Sub] = "recv"
  /\ \/ \E k \in 1 .. socket :
          /\ got' = k
          /\ socket' = socket - k
          /\ Goto(Sub, "count")
     \/ /\ socket = 0 /\ ~hubUp
        /\ Goto(Sub, "ended")
        /\ UNCHANGED <<got, socket>>
  /\ UNCHANGED <<mode, left, running, measuring, sent, recv, exit, aligned, hubUp, subscribed,
                 inHub>>

CountNow == mode = "unicast" \/ (measuring /\ left[Sub] <= Duration)

\* A FrameBuffer that does not start at a frame is cleared, with whole frames in it.
CountFrames ==
  /\ pc[Sub] = "count"
  /\ \E n \in IF aligned THEN {got} ELSE 0 .. got :
       recv' = IF CountNow THEN recv + n ELSE recv
  /\ got' = 0
  /\ Goto(Sub, "loop")
  /\ UNCHANGED <<mode, left, running, measuring, sent, exit, aligned, hubVars>>

-----------------------------------------------------------------------------
(* A publisher's loop, and main's in unicast mode                           *)

Sending == {p \in Publishers : pc[p] \in {"write", "count"}}

\* Mutant: a publisher only stops when a thread has failed.
SenderLoopTimeless(p) ==
  /\ pc[p] = "loop"
  /\ \/ ~running /\ Goto(p, "ended")
     \/ running /\ sent + Cardinality(Sending) < MaxFrames /\ Goto(p, "write")
  /\ UNCHANGED <<mode, left, running, measuring, sent, recv, exit, got, aligned, hubVars>>

SenderLoop(p) ==
  /\ pc[p] = "loop"
  /\ \/ TimeIsUp(p) /\ Goto(p, "ended")
     \/ ~TimeIsUp(p) /\ sent + Cardinality(Sending) < MaxFrames /\ Goto(p, "write")
  /\ UNCHANGED <<mode, left, running, measuring, sent, recv, exit, got, aligned, hubVars>>

\* WriteAll
SenderWrite(p) ==
  /\ pc[p] = "write"
  /\ IF hubUp THEN inHub' = inHub + 1 /\ Goto(p, "count")
              ELSE Goto(p, "ended") /\ UNCHANGED inHub
  /\ UNCHANGED <<mode, left, running, measuring, sent, recv, exit, got, aligned, hubUp,
                 subscribed, socket>>

\* send is called without MSG_NOSIGNAL: on a connection the Hub has reset it may
\* raise SIGPIPE, which ends the process.
Sigpipe(t) ==
  /\ pc[t] \in {"auth", "subscribe", "write"} /\ ~hubUp
  /\ pc' = [u \in Threads |-> "killed"]
  /\ UNCHANGED <<mode, left, running, measuring, sent, recv, exit, got, aligned, hubVars>>

SenderCount(p) ==
  /\ pc[p] = "count"
  /\ sent' = sent + 1
  /\ Goto(p, "loop")
  /\ UNCHANGED <<mode, left, running, measuring, recv, exit, got, aligned, hubVars>>

-----------------------------------------------------------------------------
(* main                                                                     *)

\* Mutant: the publishers' deadline is counted from the end of the measurement.
StartSendersLate ==
  /\ pc[Main] = "sleep" /\ left[Main] = 0
  /\ measuring' = (mode = "publish")
  /\ pc' = [t \in Threads |->
       IF t = Main THEN "join" ELSE IF t \in Senders THEN "connect" ELSE pc[t]]
  /\ left' = [t \in Threads |->
       IF t \in Senders /\ mode = "publish" THEN Duration + Duration ELSE left[t]]
  /\ UNCHANGED <<mode, running, sent, recv, exit, got, aligned, hubVars>>

\* After the warm-up the senders start; the publishers share one deadline.
StartSenders ==
  /\ pc[Main] = "sleep" /\ left[Main] = 0
  /\ measuring' = (mode = "publish")
  /\ pc' = [t \in Threads |->
       IF t = Main THEN "join" ELSE IF t \in Senders THEN "connect" ELSE pc[t]]
  /\ left' = [t \in Threads |->
       IF t \in Senders /\ mode = "publish" THEN Duration ELSE left[t]]
  /\ UNCHANGED <<mode, running, sent, recv, exit, got, aligned, hubVars>>

\* Mutant: the publishers are not joined.
JoinNoSenders ==
  /\ pc[Main] = "join"
  /\ Goto(Main, "joinsub")
  /\ UNCHANGED <<mode, left, running, measuring, sent, recv, exit, got, aligned, hubVars>>

JoinSenders ==
  /\ pc[Main] = "join" /\ \A p \in Senders : pc[p] = "ended"
  /\ Goto(Main, "joinsub")
  /\ UNCHANGED <<mode, left, running, measuring, sent, recv, exit, got, aligned, hubVars>>

Report ==
  /\ pc[Main] = "joinsub" /\ pc[Sub] = "ended"
  /\ Goto(Main, "done")
  /\ exit' = IF mode # "publish" \/ recv >= Target THEN 0 ELSE 1
  /\ UNCHANGED <<mode, left, running, measuring, sent, recv, got, aligned, hubVars>>

-----------------------------------------------------------------------------
(* The Hub and the clock                                                    *)

HubSubscribes ==
  /\ pc[Sub] = "subscribe" /\ hubUp
  /\ subscribed' = TRUE
  /\ UNCHANGED <<threadVars, hubUp, inHub, socket>>

\* The downlink bridge goes by the node id in the IM header of the payload.
UnicastRouted == ReadDestNid(MakeBusinessPayload(PayloadSize, ReceiverNid)) = ReceiverNid

\* A frame is delivered, or dropped: no subscriber, no route or a full queue.
HubRoutes ==
  /\ inHub > 0
  /\ inHub' = inHub - 1
  /\ \/ /\ subscribed /\ pc[Sub] # "ended"
        /\ mode = "publish" \/ UnicastRouted
        /\ socket' = socket + 1
     \/ UNCHANGED socket
  /\ UNCHANGED <<threadVars, hubUp, subscribed>>

HubGoesDown ==
  /\ hubUp
  /\ hubUp' = FALSE /\ inHub' = 0
  /\ UNCHANGED <<threadVars, subscribed, socket>>

Tick ==
  /\ \E t \in Threads : left[t] > 0
  /\ left' = [t \in Threads |-> IF left[t] = 0 THEN 0 ELSE left[t] - 1]
  /\ UNCHANGED <<mode, pc, running, measuring, sent, recv, exit, got, aligned, hubVars>>

-----------------------------------------------------------------------------
SubStep ==
  \/ Connect(Sub) \/ Authenticate(Sub) \/ Subscribed \/ SubscribeFails
  \/ SubLoop \/ Recv \/ CountFrames

SenderStep(p) ==
  Connect(p) \/ Authenticate(p) \/ SenderLoop(p) \/ SenderWrite(p) \/ SenderCount(p)

MainStep == StartSenders \/ JoinSenders \/ Report

BenchNext ==
  \/ MainStep \/ SubStep \/ \E p \in Publishers : SenderStep(p)
  \/ \E t \in Threads : Sigpipe(t)
  \/ HubSubscribes \/ HubRoutes \/ HubGoesDown \/ Tick

\* The threads are scheduled, time passes and a Hub that is up answers and routes.
BenchFairness ==
  /\ WF_benchVars(MainStep) /\ WF_benchVars(SubStep)
  /\ \A p \in Publishers : WF_benchVars(SenderStep(p))
  /\ WF_benchVars(HubSubscribes) /\ WF_benchVars(HubRoutes) /\ WF_benchVars(Tick)

BenchSpec == BenchInit /\ [][BenchNext]_benchVars /\ BenchFairness

-----------------------------------------------------------------------------
(***************************************************************************)
(* The report is consistent: the bench never counts more frames received   *)
(* than sent, although a frame may come back before its publisher has      *)
(* counted it, and although recv and send failures cut the loops short.    *)
(***************************************************************************)
ReportConsistent == pc[Main] = "done" => recv <= sent

(***************************************************************************)
(* The bench ends, or its receiving thread is in recv with nothing more to *)
(* come: its loop looks at the deadline and at running only between two    *)
(* recvs.  That is the only way it hangs; no failure of a connection, a    *)
(* handshake or a send in any thread leaves another one waiting.           *)
(***************************************************************************)
EndsOrWaitsInRecv ==
  <>[](\/ pc[Main] \in {"done", "killed"}
       \/ /\ pc[Main] = "joinsub" /\ pc[Sub] = "recv"
          /\ socket = 0 /\ inHub = 0 /\ hubUp)

(***************************************************************************)
(* When the Hub goes down the bench ends, whatever its threads were doing: *)
(* every blocking call fails.  It reports, or a send has raised SIGPIPE.   *)
(***************************************************************************)
EndsWithHub == ~hubUp ~> pc[Main] \in {"done", "killed"}

=============================================================================
