------------------------------ MODULE ClusterJob ------------------------------
(***************************************************************************)
(* Cluster jobs: the four websocket handlers of pkg/controller/kubekey.go, *)
(* the services of pkg/service/kubekey.go and the client of                *)
(* pkg/utils/kubekey.go.                                                   *)
(*                                                                         *)
(* A job writes its kubekey configuration to a file on the host that       *)
(* carries the registry and then runs kk on that file.  The file's path    *)
(* depends on the cluster's name alone, and nothing keeps two jobs apart.  *)
(***************************************************************************)
EXTENDS Naturals, FiniteSets, Sequences, SequencesExt

CONSTANTS
  Job,          (* requests that are served at the same time                *)
  Cluster,      (* cluster names                                            *)
  Hosts,        (* the host lists a request may come with, see below        *)
  None          (* no host, no file                                         *)

(* A host: its name, whether it carries a registry and which insecure      *)
(* registries that lists (None: the list is nil), and whether it is to be  *)
(* deleted.                                                                *)
ASSUME JobAssumption ==
  /\ {None, "nothing", "empty", "mixed"} \cap Job = {}
  /\ None \notin {"nothing", "empty", "mixed"}
  /\ \A hosts \in Hosts : hosts \in Seq(Range(hosts)) /\ \A i \in DOMAIN hosts :
       /\ hosts[i].insecure # None =>
            hosts[i].insecure \in Seq(Range(hosts[i].insecure))
       /\ hosts[i].registry \in BOOLEAN
       /\ hosts[i].isDeleted \in BOOLEAN
       /\ hosts[i].name # None

JobKind == {"CreateCluster", "DeleteCluster", "AddNode", "DeleteNode"}

VARIABLES
  kind,       (* the handler that serves each job                           *)
  cluster,    (* conf.ClusterName                                           *)
  hosts,      (* conf.Hosts                                                 *)
  pc,
  content,    (* <<host, cluster>> -> the job whose configuration the file  *)
              (* holds, "empty" once truncated, None while there is none    *)
  insecure,   (* template.InsecureRegistry as written                       *)
  generated,  (* GenerateConfig returned nil                                *)
  ran,        (* what kk read                                               *)
  node,       (* the node `kk delete node` was given                        *)
  disturbed,  (* jobs whose file another job has written since they dialled *)
  told        (* jobs whose client got a terminal message                   *)

conf == <<kind, cluster, hosts>>
jobVars == <<conf, pc, content, insecure, generated, ran, node, disturbed, told>>

----------------------------------------------------------------------------
(* The loop over the hosts keeps the last one that has a registry ...      *)
Target(list) ==
  LET carriers == SelectSeq(list, LAMBDA h : h.registry)
  IN  IF carriers = <<>> THEN None ELSE Last(carriers).name

(* ... and the last one that is to be deleted.                             *)
DeletedNode(list) ==
  LET deleted == SelectSeq(list, LAMBDA h : h.isDeleted)
  IN  IF deleted = <<>> THEN None ELSE Last(deleted).name

(* Slicing an empty text panics.                                           *)
Panics == <<"panic">>

(* ParseToTemplate, one host: every registry and a comma, then the last    *)
(* character goes.  Of a nonempty text that is the comma, or, when the     *)
(* host's list is empty, the end of an earlier host's last registry.       *)
AppendRegistries(text, list) ==
  LET longer == text \o [n \in 1..2 * Len(list) |->
                           IF n % 2 = 1 THEN list[(n + 1) \div 2] ELSE ","]
  IN  IF longer = <<>> THEN Panics
      ELSE IF Last(longer) = "," THEN Front(longer)
      ELSE Append(Front(longer), "cut")

(* The loop over the hosts; text[n] is the text after n of them.           *)
InsecureRegistry(list) ==
  LET text[n \in 0..Len(list)] ==
        IF n = 0 THEN <<>>
        ELSE IF /\ list[n].registry /\ list[n].insecure # None
                /\ text[n - 1] # Panics
             THEN AppendRegistries(text[n - 1], list[n].insecure)
             ELSE text[n - 1]
  IN  text[Len(list)]

File(j) == <<Target(hosts[j]), cluster[j]>>
Files   == {Target(list) : list \in Hosts} \X Cluster

Goto(j, l) == pc' = [pc EXCEPT ![j] = l]

JobInit ==
  /\ kind \in [Job -> JobKind]
  /\ cluster \in [Job -> Cluster]
  /\ hosts \in [Job -> Hosts]
  /\ pc = [j \in Job |-> "dial"]
  /\ content = [f \in Files |-> None]
  /\ insecure = [j \in Job |-> <<>>]
  /\ generated = [j \in Job |-> FALSE]
  /\ ran = [j \in Job |-> "nothing"]
  /\ node = [j \in Job |-> None]
  /\ disturbed = {}
  /\ told = {}

----------------------------------------------------------------------------
(* A job goes to the host it writes and runs on; without one (an unread    *)
(* request has no hosts) there is nobody to dial.                          *)
Dial(j) ==
  /\ pc[j] = "dial"
  /\ Target(hosts[j]) # None
  /\ Goto(j, "render")
  /\ UNCHANGED <<conf, content, insecure, generated, ran, node,
                 disturbed, told>>

(* The error goes to the log and the handler ignores it: the client is not *)
(* told anything.                                                          *)
DialError(j) ==
  /\ pc[j] = "dial"
  /\ Goto(j, "returned")
  /\ UNCHANGED <<conf, content, insecure, generated, ran, node,
                 disturbed, told>>

(* The template is filled, or a panic leaves it to the request's chain.    *)
ParseToTemplate(j) ==
  /\ pc[j] = "render"
  /\ insecure' = [insecure EXCEPT ![j] = InsecureRegistry(hosts[j])]
  /\ Goto(j, IF insecure'[j] = Panics THEN "returned" ELSE "mkdir")
  /\ UNCHANGED <<conf, content, generated, ran, node, disturbed, told>>

MkDirALL(j) ==
  /\ pc[j] = "mkdir"
  /\ Goto(j, "truncate")
  /\ UNCHANGED <<conf, content, insecure, generated, ran, node,
                 disturbed, told>>

(* A step of GenerateConfig fails; the service drops the error and runs kk *)
(* all the same.                                                           *)
GenerateError(j) ==
  /\ pc[j] \in {"mkdir", "truncate", "write"}
  /\ Goto(j, "launch")
  /\ UNCHANGED <<conf, content, insecure, generated, ran, node,
                 disturbed, told>>

(* Jobs that have opened the same file and have not had kk read it yet.    *)
Sharing(j) ==
  {k \in Job \ {j} : pc[k] \in {"write", "launch"} /\ File(k) = File(j)}

(* echo '...' > path: the shell empties the file ...                       *)
Truncate(j) ==
  /\ pc[j] = "truncate"
  /\ content' = [content EXCEPT ![File(j)] = "empty"]
  /\ disturbed' = disturbed \cup Sharing(j)
  /\ Goto(j, "write")
  /\ UNCHANGED <<conf, insecure, generated, ran, node, told>>

(* Mutant of Write: the file of another cluster on the host is written.    *)
WriteAnywhere(j) ==
  /\ pc[j] = "write"
  /\ \E f \in Files : /\ f[1] = File(j)[1]
                      /\ content' = [content EXCEPT ![f] = j]
  /\ generated' = [generated EXCEPT ![j] = TRUE]
  /\ disturbed' = disturbed \cup Sharing(j)
  /\ Goto(j, "launch")
  /\ UNCHANGED <<conf, insecure, ran, node, told>>

(* ... and writes from its beginning: over what another job has written    *)
(* since, whose text may be longer.                                        *)
Write(j) ==
  /\ pc[j] = "write"
  /\ \/ content' = [content EXCEPT ![File(j)] = j]
     \/ /\ content[File(j)] \in Job \cup {"mixed"}
        /\ content' = [content EXCEPT ![File(j)] = "mixed"]
  /\ generated' = [generated EXCEPT ![j] = TRUE]
  /\ disturbed' = disturbed \cup Sharing(j)
               \cup (IF content[File(j)] = "empty" THEN {} ELSE {j})
  /\ Goto(j, "launch")
  /\ UNCHANGED <<conf, insecure, ran, node, told>>

(* kk create, delete, add or delete node: it reads the file.               *)
Launch(j) ==
  /\ pc[j] = "launch"
  /\ ran' = [ran EXCEPT ![j] = content[File(j)]]
  /\ node' = [node EXCEPT ![j] =
       IF kind[j] = "DeleteNode" THEN DeletedNode(hosts[j]) ELSE @]
  /\ Goto(j, "running")
  /\ UNCHANGED <<conf, content, insecure, generated, disturbed, told>>

(* session.Start is refused: kk does not run, and the client gets its      *)
(* message all the same.                                                   *)
StartError(j) ==
  /\ pc[j] = "launch"
  /\ Goto(j, "running")
  /\ UNCHANGED <<conf, content, insecure, generated, ran, node,
                 disturbed, told>>

(* No session for kk: ExecuteCommand returns without a message.            *)
LaunchError(j) ==
  /\ pc[j] = "launch"
  /\ Goto(j, "returned")
  /\ UNCHANGED <<conf, content, insecure, generated, ran, node,
                 disturbed, told>>

(* kk is over, well or not, or was not started: the client gets a terminal *)
(* message.                                                                *)
Finish(j) ==
  /\ pc[j] = "running"
  /\ told' = told \cup {j}
  /\ Goto(j, "returned")
  /\ UNCHANGED <<conf, content, insecure, generated, ran, node,
                 disturbed>>

Stopped == (\A j \in Job : pc[j] = "returned") /\ UNCHANGED jobVars

----------------------------------------------------------------------------
GenerateConfig(j) ==
  ParseToTemplate(j) \/ MkDirALL(j) \/ Truncate(j) \/ Write(j)

Step(j) == \/ Dial(j) \/ DialError(j)
           \/ GenerateConfig(j) \/ GenerateError(j)
           \/ Launch(j) \/ StartError(j) \/ LaunchError(j) \/ Finish(j)

JobNext == (\E j \in Job : Step(j)) \/ Stopped

JobSpec == JobInit /\ [][JobNext]_jobVars

----------------------------------------------------------------------------
JobTypeOK ==
  /\ kind \in [Job -> JobKind]
  /\ cluster \in [Job -> Cluster]
  /\ hosts \in [Job -> Hosts]
  /\ pc \in [Job -> {"dial", "render", "mkdir", "truncate", "write", "launch",
                     "running", "returned"}]
  /\ content \in [Files -> Job \cup {None, "empty", "mixed"}]
  /\ generated \in [Job -> BOOLEAN]
  /\ ran \in [Job -> Job \cup {"nothing", None, "empty", "mixed"}]
  /\ disturbed \subseteq Job
  /\ told \subseteq {j \in Job : pc[j] = "returned"}

(* The insecure registries come out as the hosts list them, separated by   *)
(* commas, when one host lists some and no other host any.  (Two lists are *)
(* run together without a comma, and an empty list cuts a character off an *)
(* earlier one, or panics.)                                                *)
Listing(list) == {i \in DOMAIN list : list[i].registry /\ list[i].insecure # None}

RegistriesAsGiven(text, list) ==
  \A i \in DOMAIN list :
    Listing(list) = {i} /\ list[i].insecure # <<>> =>
      /\ Len(text) = 2 * Len(list[i].insecure) - 1
      /\ \A n \in DOMAIN list[i].insecure : text[2 * n - 1] = list[i].insecure[n]
      /\ \A n \in DOMAIN text : n % 2 = 0 => text[n] = ","

(* kk runs on the configuration of the very request it runs for, with the  *)
(* registries that request lists, with two exceptions: writing it failed   *)
(* (the old file is used, whatever it says), or another job of the same    *)
(* cluster name opened or wrote the file between this job's opening of it  *)
(* and kk's reading.  Even then kk reads nothing of another cluster's, or  *)
(* of another host's, job.                                                 *)
RunsOwnConfiguration ==
  \A j \in Job : ran[j] # "nothing" =>
    /\ ran[j] = j \/ ~generated[j] \/ j \in disturbed
    /\ ran[j] \in Job => File(ran[j]) = File(j)
                       /\ RegistriesAsGiven(insecure[ran[j]], hosts[ran[j]])

----------------------------------------------------------------------------
(* A job as its client sees it: a streamed command, whose session is there *)
(* once kk is launched.                                                    *)
Streamed(j) == INSTANCE StreamedCommand WITH
  stage <- CASE pc[j] = "running"  -> "command"
             [] pc[j] = "returned" -> "returned"
             [] OTHER              -> "session",
  messages <- IF j \in told THEN 1 ELSE 0

JobsImplementCommand == \A j \in Job : Streamed(j)!Spec
=============================================================================
