------------------------------- MODULE FileCopy -------------------------------
(***************************************************************************)
(* Copies to one machine: CopyMultiFile and CopyFile of                    *)
(* pkg/utils/remote.go.                                                    *)
(*                                                                         *)
(* A file goes over sftp to /tmp/<base name of its destination> and from   *)
(* there, with cp -f, to its destination.  CopyMultiFile copies its files  *)
(* in parallel; several calls may be under way on the machine, and files   *)
(* with one base name meet in one temporary file.                          *)
(***************************************************************************)
EXTENDS Naturals, FiniteSets

CONSTANTS
  Call,       (* calls of CopyMultiFile, or of CopyFile: a single file      *)
  Copy,       (* the files of all calls                                     *)
  CallOf,     (* [Copy -> Call]                                             *)
  Single,     (* the calls that are CopyFile                                *)
  Temp,       (* temporary file names                                       *)
  None        (* no file                                                    *)

Copies(m) == {c \in Copy : CallOf[c] = m}

ASSUME CopyAssumption ==
  /\ IsFiniteSet(Copy) /\ CallOf \in [Copy -> Call]
  /\ Single \subseteq Call /\ \A m \in Single : Cardinality(Copies(m)) = 1
  /\ {"empty", "mixed", "partial"} \cap Copy = {}
  /\ None \notin Copy \cup {"empty", "mixed", "partial"}

VARIABLES
  temp,       (* [Copy -> Temp]: /tmp/<base name of its destination>        *)
  content,    (* Temp -> the source it holds, or "empty", "mixed", None     *)
  dest,       (* what each copy's destination holds: None is what was there *)
              (* before, "partial" what a cp that failed half-way has left  *)
  pc,         (* each file's goroutine                                      *)
  disturbed,  (* copies whose temporary file another copy has touched since *)
  call,       (* each call: "sftp", "copying", "blocked", "returned"        *)
  results,    (* results pushed into the calls' channels                    *)
  answer      (* what the call returned                                     *)

vars == <<temp, content, dest, pc, disturbed, call, results, answer>>

Init ==
  /\ temp \in [Copy -> Temp]
  /\ content = [t \in Temp |-> None]
  /\ dest = [c \in Copy |-> None]
  /\ pc = [c \in Copy |-> "none"]
  /\ disturbed = {}
  /\ call = [m \in Call |-> "sftp"]
  /\ results = {}
  /\ answer = [m \in Call |-> "none"]

Goto(c, l) == pc' = [pc EXCEPT ![c] = l]

----------------------------------------------------------------------------
(* sftp.NewClient, then a goroutine per file.                              *)
NewClient(m) ==
  /\ call[m] = "sftp"
  /\ call' = [call EXCEPT ![m] = "copying"]
  /\ pc' = [c \in Copy |-> IF CallOf[c] = m THEN "open" ELSE pc[c]]
  /\ UNCHANGED <<temp, content, dest, disturbed, results, answer>>

(* Mutant of NewClientError: the call goes on to read its results.         *)
WaitsForResults(m) ==
  /\ call[m] = "sftp"
  /\ call' = [call EXCEPT ![m] = "copying"]
  /\ UNCHANGED <<temp, content, dest, pc, disturbed, results, answer>>

(* The sftp session fails: CopyMultiFile pushes a failure into a channel   *)
(* with room for its files and returns nil; with no files it has no room,  *)
(* and the push blocks for ever.                                           *)
NewClientError(m) ==
  /\ call[m] = "sftp"
  /\ IF m \notin Single /\ Copies(m) = {}
       THEN call' = [call EXCEPT ![m] = "blocked"] /\ UNCHANGED answer
       ELSE /\ call' = [call EXCEPT ![m] = "returned"]
            /\ answer' = [answer EXCEPT ![m] =
                 IF m \in Single THEN "failure" ELSE "nil"]
  /\ UNCHANGED <<temp, content, dest, pc, disturbed, results>>

----------------------------------------------------------------------------
OpenSource(c) ==
  /\ pc[c] = "open" /\ Goto(c, "create")
  /\ UNCHANGED <<temp, content, dest, disturbed, call, results, answer>>

(* Copies that have created the same temporary file and not yet had it     *)
(* copied to their destination.                                            *)
Sharing(c) == {d \in Copy \ {c} : temp[d] = temp[c] /\ pc[d] \in {"write", "cp"}}

(* sftpClient.Create truncates what is there.                              *)
CreateTemp(c) ==
  /\ pc[c] = "create"
  /\ content' = [content EXCEPT ![temp[c]] = "empty"]
  /\ disturbed' = disturbed \cup Sharing(c)
  /\ Goto(c, "write")
  /\ UNCHANGED <<temp, dest, call, results, answer>>

(* io.Copy writes from the file's beginning, over what another copy has    *)
(* written since, which may be longer.                                     *)
WriteTemp(c) ==
  /\ pc[c] = "write"
  /\ \/ content' = [content EXCEPT ![temp[c]] = c]
     \/ /\ content[temp[c]] # "empty"
        /\ content' = [content EXCEPT ![temp[c]] = "mixed"]
  /\ disturbed' = disturbed \cup Sharing(c)
               \cup (IF content[temp[c]] = "empty" THEN {} ELSE {c})
  /\ Goto(c, "cp")
  /\ UNCHANGED <<temp, dest, call, results, answer>>

(* Mutant of CopyToDestination: cp before the temporary file is written.   *)
CopyUnwritten(c) ==
  /\ pc[c] \in {"write", "cp"}
  /\ dest' = [dest EXCEPT ![c] = content[temp[c]]]
  /\ Goto(c, "succeeded")
  /\ UNCHANGED <<temp, content, disturbed, call, results, answer>>

(* cp -f /tmp/<base> <destination>, by the remote shell.                   *)
CopyToDestination(c) ==
  /\ pc[c] = "cp"
  /\ dest' = [dest EXCEPT ![c] = content[temp[c]]]
  /\ Goto(c, "succeeded")
  /\ UNCHANGED <<temp, content, disturbed, call, results, answer>>

(* A step fails.  A broken transfer leaves what it has written so far.  A  *)
(* cp whose exit status is lost with the session may have done its work,   *)
(* and one that fails on a full disk has truncated the destination.        *)
CopyError(c) ==
  /\ pc[c] \in {"open", "create", "write", "cp"}
  /\ content' \in {content} \cup
       (IF pc[c] = "write" THEN {[content EXCEPT ![temp[c]] = "mixed"]} ELSE {})
  /\ disturbed' = IF pc[c] = "write" THEN disturbed \cup Sharing(c) ELSE disturbed
  /\ dest' \in {dest} \cup
       (IF pc[c] = "cp"
          THEN {[dest EXCEPT ![c] = d] : d \in {content[temp[c]], "partial"}}
          ELSE {})
  /\ Goto(c, "failed")
  /\ UNCHANGED <<temp, call, results, answer>>

(* results <- MachineResult{...}: the channel has room for every file.     *)
PushResult(c) ==
  /\ pc[c] \in {"succeeded", "failed"}
  /\ results' = results \cup {[copy |-> c, success |-> pc[c] = "succeeded"]}
  /\ Goto(c, IF pc[c] = "succeeded" THEN "copied" ELSE "givenUp")
  /\ UNCHANGED <<temp, content, dest, disturbed, call, answer>>

----------------------------------------------------------------------------
Done(c) == pc[c] \in {"copied", "givenUp"}

ResultsOf(m) == {r \in results : CallOf[r.copy] = m}

(* The channel is closed after the last goroutine and read to its end:     *)
(* OverallSuccess is that no file failed.                                  *)
Answer(m) ==
  /\ call[m] = "copying"
  /\ \A c \in Copies(m) : Done(c)
  /\ answer' = [answer EXCEPT ![m] =
       IF \E r \in ResultsOf(m) : ~r.success THEN "failure" ELSE "success"]
  /\ call' = [call EXCEPT ![m] = "returned"]
  /\ UNCHANGED <<temp, content, dest, pc, disturbed, results>>

Stopped == /\ \A m \in Call : call[m] \in {"returned", "blocked"}
           /\ UNCHANGED vars

Start(m) == NewClient(m) \/ NewClientError(m)

Goroutine(c) == \/ OpenSource(c) \/ CreateTemp(c) \/ WriteTemp(c)
                \/ CopyToDestination(c) \/ CopyError(c) \/ PushResult(c)

Next == \/ \E m \in Call : Start(m) \/ Answer(m)
        \/ \E c \in Copy : Goroutine(c)
        \/ Stopped

Fairness == /\ \A m \in Call : WF_vars(Start(m)) /\ WF_vars(Answer(m))
            /\ \A c \in Copy : WF_vars(Goroutine(c))

Spec     == Init /\ [][Next]_vars
FairSpec == Spec /\ Fairness

----------------------------------------------------------------------------
Contents == Copy \cup {None, "empty", "mixed", "partial"}

TypeOK ==
  /\ temp \in [Copy -> Temp]
  /\ content \in [Temp -> Contents]
  /\ dest \in [Copy -> Contents]
  /\ pc \in [Copy -> {"none", "open", "create", "write", "cp", "succeeded",
                      "failed", "copied", "givenUp"}]
  /\ disturbed \subseteq Copy
  /\ call \in [Call -> {"sftp", "copying", "blocked", "returned"}]
  /\ results \subseteq [copy : Copy, success : BOOLEAN]
  /\ {r.copy : r \in results} = {c \in Copy : Done(c)}
  /\ answer \in [Call -> {"none", "nil", "success", "failure"}]

(* A file that is reported a success, and every file of a call that        *)
(* answers success, is at its destination with its own content, but for    *)
(* files whose temporary file another copy touched between its creation    *)
(* and the cp: their destination may hold another file's content, or none. *)
(* A file reported a failure may be as it was, copied (the exit status of  *)
(* its cp was lost) or truncated, but holds no other file's content.       *)
SuccessIsCopied ==
  /\ \A m \in Call : answer[m] = "success" =>
       \A c \in Copies(m) : dest[c] = c \/ c \in disturbed
  /\ \A r \in results : r.success =>
       dest[r.copy] = r.copy \/ r.copy \in disturbed
  /\ \A c \in Copy : dest[c] \in {None, c, "partial"} \/ c \in disturbed

(* Every call returns, except a CopyMultiFile without files whose sftp     *)
(* session fails.                                                          *)
CopyReturns ==
  \A m \in Call : <>(\/ call[m] = "returned"
                     \/ /\ m \notin Single /\ Copies(m) = {}
                        /\ call[m] = "blocked")

----------------------------------------------------------------------------
(* A call as its caller sees it once it has its sftp session: each file    *)
(* comes to one report, and the answer is made of all of them.  Without a  *)
(* session there is no parallel call: the answer says so, or is nil.       *)
reports(m) == [c \in Copies(m) |->
  IF [copy |-> c, success |-> TRUE] \in results THEN "success"
  ELSE IF [copy |-> c, success |-> FALSE] \in results THEN "failure"
  ELSE "none"]

NoSession(m) == \E c \in Copies(m) : pc[c] = "none"

Copying(m) == INSTANCE ParallelCall WITH
  Worker <- Copies(m), report <- reports(m),
  answer <- IF NoSession(m) THEN "none" ELSE answer[m]

(* The goroutines of all calls, whatever they do to each other's temporary *)
(* files, leave each call's reports to itself, and the answer to them.     *)
CopyImplementsCall == \A m \in Call : Copying(m)!Spec

(* What ResultPerFile of the pool takes a CopyMultiFile for: a success for *)
(* each file that arrived, and no error only if all of them did.           *)
Arrived(m) == {c \in Copies(m) : [copy |-> c, success |-> TRUE] \in results}

OneResultPerFile ==
  \A m \in Call : answer[m] # "none" =>
    /\ Cardinality(Arrived(m)) \in 0..Cardinality(Copies(m))
    /\ answer[m] = "success" <=> Cardinality(Arrived(m)) = Cardinality(Copies(m))
=============================================================================
