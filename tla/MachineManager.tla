---------------------------- MODULE MachineManager ----------------------------
(***************************************************************************)
(* Watching machines: the MachineManager and the observers of              *)
(* pkg/utils/machine.                                                      *)
(*                                                                         *)
(* Every tick starts a goroutine per machine that asks it, over ssh, for   *)
(* its status and sends the answer into an unbuffered channel; one more    *)
(* goroutine receives the updates and calls the observers registered for   *)
(* the machine.  An AdvancedObserver decides by its own list of machines,  *)
(* which its owner changes at any time: the list has no lock.              *)
(***************************************************************************)
EXTENDS Naturals, Sequences, SequencesExt

CONSTANTS
  Managed,    (* the machines given to NewMachineManager, a sequence of IDs *)
  ID,         (* machine IDs an observer may name                           *)
  Observer,
  Lists,      (* the lists of machines that observers begin with            *)
  Process,    (* process names                                              *)
  MaxTicks,   (* bound: ticks                                               *)
  MaxChurn    (* bound: changes of machines, registrations and lists        *)

Machine == Range(Managed)

ASSUME ManagerAssumption ==
  /\ Managed # <<>> /\ IsInjective(Managed) /\ Machine \subseteq ID
  /\ 0 \notin ID
  /\ Lists \subseteq Seq(ID) /\ \A s \in Lists : IsInjective(s)
  /\ MaxTicks \in Nat /\ MaxChurn \in Nat

VARIABLES
  created,    (* NewMachineManager: "no", "yes", or it has panicked         *)
  reachable,  (* machines to which the ssh connection stands                *)
  runs,       (* the process each machine was listed with                   *)
  running,    (* machines on which that process runs                        *)
  ticks,
  sample,     (* the updates under way, from reading to the send            *)
  heard,      (* history: what handleUpdates last gave out of each machine  *)
  changedAt,  (* history: the tick after which each machine last changed    *)
  late,       (* history: machines whose samples were under way at the tick *)
  registered, (* observers: machine ID -> set of observers                  *)
  array,      (* each observer's SubscribedMachines                         *)
  owner,      (* what the owner of the list is in the midst of              *)
  churn,      (* how many such changes there have been                      *)
  handler     (* the goroutine in handleUpdates                             *)

world == <<reachable, runs, running, changedAt>>
samples == <<ticks, sample, late>>
lists == <<array, owner>>
managerVars == <<created, world, samples, heard, registered, lists, churn,
                 handler>>

Counted == churn < MaxChurn /\ churn' = churn + 1

Idle == [at |-> "recv"]
NoOp == [op |-> "none"]

ManagerInit ==
  /\ created = "no"
  /\ reachable \in {Machine} \cup {Machine \ {m} : m \in Machine}
  /\ runs \in [Machine -> Process]
  /\ running \in SUBSET Machine
  /\ ticks = 0
  /\ sample = {} /\ late = {}
  /\ heard = [m \in Machine |-> "nothing"]
  /\ changedAt = [m \in Machine |-> 0]
  /\ \E o \in {{}, Observer} : registered = [m \in Machine |-> o]
  /\ array \in [Observer -> Lists]
  /\ owner = [o \in Observer |-> NoOp]
  /\ churn = 0
  /\ handler = Idle

----------------------------------------------------------------------------
(* A machine that cannot be dialled leaves a nil executor, which NewClient *)
(* dereferences.                                                           *)
NewMachineManager ==
  /\ created = "no"
  /\ created' = IF reachable = Machine THEN "yes" ELSE "panicked"
  /\ UNCHANGED <<world, samples, heard, registered, lists, churn, handler>>

(* proccessName: the last machine's, for all of them.                      *)
Watched == runs[Last(Managed)]

(* A connection is made once: what is lost is lost.                        *)
ConnectionLost(m) ==
  /\ created = "yes" /\ m \in reachable
  /\ reachable' = reachable \ {m}
  /\ changedAt' = [changedAt EXCEPT ![m] = ticks]
  /\ Counted
  /\ UNCHANGED <<created, runs, running, samples, heard, registered, lists, handler>>

(* A process starts or stops.                                              *)
ProcessChange(m) ==
  /\ created = "yes"
  /\ running' = IF m \in running THEN running \ {m} ELSE running \cup {m}
  /\ changedAt' = [changedAt EXCEPT ![m] = ticks]
  /\ Counted
  /\ UNCHANGED <<created, reachable, runs, samples, heard, registered, lists, handler>>

(* periodicallyUpdateMachineStatus: one more goroutine per machine, also   *)
(* for one whose last goroutine is not done.                               *)
Tick ==
  /\ created = "yes" /\ ticks < MaxTicks
  /\ ticks' = ticks + 1
  /\ sample' = sample \cup
       {[machine |-> m, tick |-> ticks', at |-> "read"] : m \in Machine}
  /\ late' = {s.machine : s \in sample}
  /\ UNCHANGED <<created, world, heard, registered, lists, churn, handler>>

(* UpdateMachineStatus asks for the process: of the machine's own the      *)
(* answer is right, of another one it may be anything.  IsProcessExist     *)
(* takes any failing command for a stopped process, over a connection that *)
(* is lost or not; observers cannot tell "failed" from "stopped".          *)
UpdateMachineStatus(s) ==
  /\ s.at = "read"
  /\ \E status \in {"working", "stopped", "failed"} :
       /\ s.machine \notin reachable => status = "failed"
       /\ runs[s.machine] = Watched =>
            status # (IF s.machine \in running THEN "stopped" ELSE "working")
       /\ sample' = (sample \ {s}) \cup
            {[machine |-> s.machine, tick |-> s.tick, at |-> "send", status |-> status]}
  /\ UNCHANGED <<created, world, ticks, late, heard, registered, lists, churn, handler>>

----------------------------------------------------------------------------
RegisterObserver(o, m) ==
  /\ created = "yes"
  /\ o \notin registered[m]
  /\ registered' = [registered EXCEPT ![m] = @ \cup {o}]
  /\ Counted
  /\ UNCHANGED <<created, world, samples, heard, lists, handler>>

RemoveObserver(o, m) ==
  /\ created = "yes"
  /\ o \in registered[m]
  /\ registered' = [registered EXCEPT ![m] = @ \ {o}]
  /\ Counted
  /\ UNCHANGED <<created, world, samples, heard, lists, handler>>

(* shouldNotify is looking at o's list: remember what happens to it.       *)
Deciding(o) == handler.at \in {"check", "scan"} /\ handler.observer = o

(* append: the new length shows before the new element, or the array that  *)
(* holds it, does; until then anything may stand there.                    *)
SubscribeMachine(o, id) ==
  /\ created = "yes" /\ owner[o] = NoOp
  /\ id \notin Range(array[o])
  /\ \E x \in ID \cup {0} : array' = [array EXCEPT ![o] = Append(@, x)]
  /\ owner' = [owner EXCEPT ![o] = [op |-> "append", id |-> id]]
  /\ Counted
  /\ handler' = IF Deciding(o) THEN [handler EXCEPT !.grew = TRUE] ELSE handler
  /\ UNCHANGED <<created, world, samples, heard, registered>>

Appended(o) ==
  /\ owner[o].op = "append"
  /\ array' = [array EXCEPT ![o][Len(array[o])] = owner[o].id]
  /\ owner' = [owner EXCEPT ![o] = NoOp]
  /\ UNCHANGED <<created, world, samples, heard, registered, churn, handler>>

(* append(s[:i], s[i+1:]...): the rest moves up within the same array ...  *)
UnsubscribeMachine(o, id) ==
  /\ created = "yes" /\ owner[o] = NoOp
  /\ \E i \in DOMAIN array[o] :
       /\ array[o][i] = id
       /\ array' = [array EXCEPT ![o] = Append(RemoveAt(@, i), Last(@))]
  /\ owner' = [owner EXCEPT ![o] = [op |-> "remove", id |-> id]]
  /\ Counted
  /\ handler' = IF Deciding(o) THEN [handler EXCEPT !.moved = TRUE] ELSE handler
  /\ UNCHANGED <<created, world, samples, heard, registered>>

(* ... and then the list is shorter.                                       *)
Shortened(o) ==
  /\ owner[o].op = "remove"
  /\ array' = [array EXCEPT ![o] = Front(@)]
  /\ owner' = [owner EXCEPT ![o] = NoOp]
  /\ UNCHANGED <<created, world, samples, heard, registered, churn, handler>>

----------------------------------------------------------------------------
(* handleUpdates takes s up: NotifyObservers begins.                       *)
TakeUp(s) ==
  /\ handler' = [at |-> "range", machine |-> s.machine, visited |-> {},
                 due |-> registered[s.machine]]
  /\ heard' = [heard EXCEPT ![s.machine] = s.status]

(* Mutant of Receive: a select with a default, which drops what finds the  *)
(* handler at work.                                                        *)
ReceiveOrDrop(s) ==
  /\ s.at = "send"
  /\ sample' = sample \ {s}
  /\ IF handler.at = "recv" THEN TakeUp(s) ELSE UNCHANGED <<heard, handler>>
  /\ UNCHANGED <<created, world, ticks, late, registered, lists, churn>>

(* handleUpdates receives from a goroutine that is sending, any one of     *)
(* them.                                                                   *)
Receive(s) ==
  /\ s.at = "send" /\ handler.at = "recv"
  /\ sample' = sample \ {s}
  /\ TakeUp(s)
  /\ UNCHANGED <<created, world, ticks, late, registered, lists, churn>>

(* What o subscribes to: not the element in the making, nor the one that   *)
(* is in the array twice until the list is shorter.                        *)
Subscribed(o) ==
  IF owner[o] = NoOp THEN Range(array[o]) ELSE Range(Front(array[o]))

(* NotifyObservers ranges over the sync.Map: each observer at most once;   *)
(* one that comes or goes meanwhile may be visited or not.                 *)
Visit(o) ==
  /\ handler.at = "range"
  /\ o \in registered[handler.machine] \ handler.visited
  /\ handler' =
       [at |-> "check", machine |-> handler.machine, due |-> handler.due,
        visited |-> handler.visited \cup {o}, observer |-> o,
        subscribed |-> handler.machine \in Subscribed(o),
        grew |-> owner[o].op = "append", moved |-> owner[o].op = "remove",
        length |-> 0, i |-> 1,
        notified |-> FALSE]
  /\ UNCHANGED <<created, world, samples, heard, registered, lists, churn>>

RangeEnds ==
  /\ handler.at = "range"
  /\ (handler.due \cap registered[handler.machine]) \subseteq handler.visited
  /\ handler' = Idle
  /\ UNCHANGED <<created, world, samples, heard, registered, lists, churn>>

(* shouldNotify returns; Update prints the change or does not.             *)
Decide(answer) == handler' = [handler EXCEPT !.at = "decided", !.notified = answer]

Updated ==
  /\ handler.at = "decided"
  /\ handler' = [at |-> "range", machine |-> handler.machine, due |-> handler.due,
                 visited |-> handler.visited]
  /\ UNCHANGED <<created, world, samples, heard, registered, lists, churn>>

(* shouldNotify: an empty list means every machine.                        *)
CheckEmpty ==
  /\ handler.at = "check"
  /\ IF array[handler.observer] = <<>>
       THEN Decide(TRUE)
       ELSE handler' = [handler EXCEPT !.at = "scan",
                                       !.length = Len(array[handler.observer])]
  /\ UNCHANGED <<created, world, samples, heard, registered, lists, churn>>

(* Position i of the array, also beyond the end of a list cut meanwhile:   *)
(* there the last element was.                                             *)
ElementAt(o, i) == IF i \in DOMAIN array[o] THEN {array[o][i]} ELSE ID \cup {0}

(* Mutant of ScanList: the first element is taken for the list's head.     *)
SkipFirst ==
  /\ handler.at = "scan"
  /\ \E x \in ElementAt(handler.observer, handler.i) :
       IF x = handler.machine /\ handler.i > 1 THEN Decide(TRUE)
       ELSE IF handler.i >= handler.length THEN Decide(FALSE)
       ELSE handler' = [handler EXCEPT !.i = @ + 1]
  /\ UNCHANGED <<created, world, samples, heard, registered, lists, churn>>

(* The loop over the list, as long as it was when the loop began.          *)
ScanList ==
  /\ handler.at = "scan"
  /\ \E x \in ElementAt(handler.observer, handler.i) :
       IF x = handler.machine THEN Decide(TRUE)
       ELSE IF handler.i = handler.length THEN Decide(FALSE)
       ELSE handler' = [handler EXCEPT !.i = @ + 1]
  /\ UNCHANGED <<created, world, samples, heard, registered, lists, churn>>

----------------------------------------------------------------------------
MachineChange == \E m \in Machine : ConnectionLost(m) \/ ProcessChange(m)

Registration == \E o \in Observer : \E m \in Machine :
                  RegisterObserver(o, m) \/ RemoveObserver(o, m)

Subscription == \E o \in Observer :
                  \/ \E id \in ID : \/ SubscribeMachine(o, id)
                                    \/ UnsubscribeMachine(o, id)
                  \/ Appended(o) \/ Shortened(o)

Sampling == Tick \/ \E s \in sample : UpdateMachineStatus(s) \/ Receive(s)

handleUpdates ==
  (\E o \in Observer : Visit(o)) \/ RangeEnds \/ CheckEmpty \/ ScanList
  \/ Updated

ManagerNext ==
  \/ NewMachineManager \/ MachineChange \/ Registration \/ Subscription
  \/ Sampling \/ handleUpdates

ManagerSpec == ManagerInit /\ [][ManagerNext]_managerVars

----------------------------------------------------------------------------
(* The goroutines of a tick, then the update that is being delivered.      *)
Reading == [machine : Machine, tick : Nat, at : {"read"}]
Update  == [machine : Machine, tick : Nat, at : {"send"},
            status : {"working", "stopped", "failed"}]

Ranging  == [at : {"range"}, machine : Machine, visited : SUBSET Observer,
             due : SUBSET Observer]
Asked    == [at : {"check", "scan", "decided"}, machine : Machine,
             visited : SUBSET Observer, due : SUBSET Observer, observer : Observer,
             subscribed : BOOLEAN, grew : BOOLEAN, moved : BOOLEAN,
             length : Nat, i : Nat \ {0}, notified : BOOLEAN]

Doing == [op : {"none"}] \cup [op : {"append", "remove"}, id : ID]

ManagerTypeOK ==
  /\ ticks \in Nat /\ churn \in Nat
  /\ reachable \subseteq Machine /\ running \subseteq Machine
  /\ late \subseteq Machine
  /\ heard \in [Machine -> {"nothing", "working", "stopped", "failed"}]
  /\ changedAt \in [Machine -> Nat]
  /\ sample \subseteq Reading \cup Update
  /\ registered \in [Machine -> SUBSET Observer]
  /\ array \in [Observer -> Seq(ID \cup {0})]
  /\ owner \in [Observer -> Doing]
  /\ handler \in {Idle} \cup Ranging \cup Asked

(* A registered observer is told of a machine iff it subscribes to it or   *)
(* to none at all (shouldNotify), unless its list changes while the loop  *)
(* is at it: a machine it subscribes to all along is missed only when a    *)
(* removal moves the list under the loop, and one it has not named is      *)
(* reported only when the list is being changed.                           *)
VerdictIsFair ==
  handler.at = "decided" =>
    \/ handler.notified = (handler.subscribed \/ handler.length = 0)
    \/ handler.moved
    \/ handler.grew /\ ~handler.subscribed

(* Samples of a machine are taken and given out in any order, long after   *)
(* they were true (UpdateMachineStatus).  But once a tick has come after   *)
(* the machine last changed, and all its samples are given out, what was   *)
(* given out last is how it is: unless one of its samples was still under  *)
(* way at that tick, and may have been given out after the new one; or the *)
(* command failed, as it does when the connection is lost (IsProcessExist);*)
(* or its process is not that of the last machine of the list, the only    *)
(* one that is looked for (proccessName).                                  *)
SettledStatusHeard ==
  \A m \in Machine :
    /\ changedAt[m] < ticks
    /\ \A s \in sample : s.machine # m
    /\ m \notin late
    => /\ m \notin reachable => heard[m] = "failed"
       /\ \/ heard[m] \in {"failed", IF m \in running THEN "working" ELSE "stopped"}
          \/ runs[m] # runs[Last(Managed)]
=============================================================================
