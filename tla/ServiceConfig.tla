----------------------------- MODULE ServiceConfig -----------------------------
(***************************************************************************)
(* The configuration of services on a machine: HAProxy and Keepalived, a   *)
(* file and a systemd unit each, and the manifest of the API server, which *)
(* is read, changed and written back (pkg/service/haproxy.go,              *)
(* keepalived.go, apiserver.go, their clients in pkg/utils, and the        *)
(* methods of pkg/utils/os.go they use).                                   *)
(*                                                                         *)
(* Every file is written by echo > file, which empties it first.           *)
(***************************************************************************)
EXTENDS ManagedHost, Sequences, SequencesExt

CONSTANTS
  ConfigRequest,
  Setting,    (* what requests may ask for                                  *)
  Manifest    (* what the manifest may be at first                          *)

Unit == {"haproxy", "keepalived"}

VARIABLES
  service,    (* each request: a unit, or "apiserver"; once it has begun    *)
  setting,    (* what it asks for                                           *)
  unitFile,   (* the units' configuration files                             *)
  unitRuns,   (* the configuration each unit runs with                      *)
  manifest,   (* kube-apiserver.yaml                                        *)
  at,         (* each request's next command, "ok", "failed", "panicked"    *)
  card,       (* the request knows the machine's network interface          *)
  read,       (* the manifest as the request has read it                    *)
  found,      (* what its unit ran with when the request began              *)
  mixed,      (* requests that were not alone on the machine                *)
  torn,       (* requests that have emptied the manifest and failed there   *)
  asBefore    (* the manifest before the first request                      *)

requested  == <<service, setting, found, asBefore>>
configVars == <<requested, unitFile, unitRuns, manifest, at, card, read, mixed, torn>>

(* A unit's file: what it asks for, with or without the interface.         *)
Config(s, c) == [setting |-> s, card |-> c]
Old          == Config("old", TRUE)
Emptied      == Config("none", TRUE)

(* A manifest: its kind, and the settings among the container's flags, of  *)
(* which the last counts.  A pod of some other container and a container   *)
(* without a command are kinds of their own; "braces" is an empty map.     *)
Yaml(kind, flags) == [kind |-> kind, flags |-> flags]
Blank  == Yaml("blank", <<>>)
Braces == Yaml("braces", <<>>)

(* At first the manifest is a pod's, or anything but an emptied one.       *)
ASSUME ConfigAssumption ==
  /\ \A m \in Manifest : /\ m \in [kind : {"absent", "bare", "other", "pod"}, flags : Seq(Setting)]
                         /\ m.kind # "pod" => m.flags = <<>>
  /\ "none" \notin Setting
  /\ None \notin [setting : Setting \cup {"old", "none"}, card : BOOLEAN]

ConfigInit ==
  /\ service = [r \in ConfigRequest |-> "none"]
  /\ setting = [r \in ConfigRequest |-> "none"]
  /\ \E c \in {None, Old} : /\ unitRuns = [u \in Unit |-> c]
                            /\ unitFile = unitRuns
  /\ manifest \in Manifest
  /\ at = [r \in ConfigRequest |-> "idle"]
  /\ card = [r \in ConfigRequest |-> TRUE]
  /\ read = [r \in ConfigRequest |-> Blank]
  /\ found = [r \in ConfigRequest |-> None]
  /\ mixed = {} /\ torn = {}
  /\ asBefore = manifest

Ended == {"ok", "failed", "panicked"}

Configuring == {r \in ConfigRequest : at[r] \notin Ended \cup {"idle"}}

MovesTo(r, l) == at' = [at EXCEPT ![r] = l]

(* The command has taken effect; its reply may be lost.                    *)
Took(r, l) == MovesTo(r, l) \/ MovesTo(r, "failed")

----------------------------------------------------------------------------
Configure(r) ==
  /\ at[r] = "idle"
  /\ \E s \in Unit \cup {"apiserver"} :
       /\ service' = [service EXCEPT ![r] = s]
       /\ MovesTo(r, CASE s = "haproxy" -> "empty file" [] s = "keepalived" -> "card"
                     [] OTHER -> "read")
       /\ found' = [found EXCEPT ![r] = IF s \in Unit THEN unitRuns[s] ELSE None]
  /\ \E s \in Setting : setting' = [setting EXCEPT ![r] = s]
  /\ mixed' = mixed \cup (IF Configuring = {} THEN {} ELSE Configuring \cup {r})
  /\ UNCHANGED <<asBefore, unitFile, unitRuns, manifest, card, read, torn>>

(* A command fails and has no effect, ...                                  *)
ConfigError(r) ==
  /\ r \in Configuring
  /\ at[r] \notin {"card", "fill file", "fill manifest"}
  /\ MovesTo(r, "failed")
  /\ UNCHANGED <<requested, unitFile, unitRuns, manifest, card, read, mixed, torn>>

(* ... or WriteFile does, after the shell has emptied the file: nothing    *)
(* puts it right.  A text that is cut off counts as none.                  *)
WriteError(r) ==
  /\ at[r] \in {"fill file", "fill manifest"}
  /\ torn' = torn \cup (IF at[r] = "fill manifest" THEN {r} ELSE {})
  /\ MovesTo(r, "failed")
  /\ UNCHANGED <<requested, unitFile, unitRuns, manifest, card, read, mixed>>

(* GetSpecifyNetCard: an error is an empty name, and Configure goes on.    *)
GetSpecifyNetCard(r) ==
  /\ at[r] = "card"
  /\ \E c \in BOOLEAN : card' = [card EXCEPT ![r] = c]
  /\ MovesTo(r, "empty file")
  /\ UNCHANGED <<requested, unitFile, unitRuns, manifest, read, mixed, torn>>

(* ConfigureHaproxy, ConfigureKeepalived: sudo is used for root and not    *)
(* for others, whose redirection is refused (ConfigError).                 *)
EmptyFile(r) ==
  /\ at[r] = "empty file" /\ root
  /\ unitFile' = [unitFile EXCEPT ![service[r]] = Emptied]
  /\ MovesTo(r, "fill file")
  /\ UNCHANGED <<requested, unitRuns, manifest, card, read, mixed, torn>>

FillFile(r) ==
  /\ at[r] = "fill file"
  /\ unitFile' = [unitFile EXCEPT ![service[r]] = Config(setting[r], card[r])]
  /\ Took(r, "reload")
  /\ UNCHANGED <<requested, unitRuns, manifest, card, read, mixed, torn>>

DaemonReload(r) ==
  /\ at[r] = "reload"
  /\ MovesTo(r, "start")
  /\ UNCHANGED <<requested, unitFile, unitRuns, manifest, card, read, mixed, torn>>

(* Mutant of StartService: a unit counts as started as soon as it is       *)
(* known, whether or not it has come up.                                   *)
StartNoWait(r) ==
  /\ at[r] = "start"
  /\ Took(r, "ok")
  /\ UNCHANGED <<requested, unitFile, unitRuns, manifest, card, read, mixed, torn>>

(* systemctl start: a unit that runs is left as it is; another one starts  *)
(* with what is in the file now, or fails to (ConfigError).                *)
StartService(r) ==
  /\ at[r] = "start"
  /\ unitRuns' = [unitRuns EXCEPT ![service[r]] =
       IF @ = None THEN unitFile[service[r]] ELSE @]
  /\ Took(r, "ok")
  /\ UNCHANGED <<requested, unitFile, manifest, card, read, mixed, torn>>

(* A unit's process ends.                                                  *)
UnitStops(u) ==
  /\ unitRuns[u] # None
  /\ unitRuns' = [unitRuns EXCEPT ![u] = None]
  /\ UNCHANGED <<requested, unitFile, manifest, at, card, read, mixed, torn>>

----------------------------------------------------------------------------
(* Mutant of ReadBytes: the error of cat is dropped.                       *)
ReadAnyway(r) ==
  /\ at[r] = "read"
  /\ \E y \in {manifest, Blank} : read' = [read EXCEPT ![r] = y]
  /\ MovesTo(r, "empty manifest")
  /\ UNCHANGED <<requested, unitFile, unitRuns, manifest, card, mixed, torn>>

(* ModifyConfig: cat, and the unchecked assertion on the container's       *)
(* command in updateCommandInContainer.  A missing manifest fails          *)
(* (ConfigError).                                                          *)
ReadBytes(r) ==
  /\ at[r] = "read" /\ manifest.kind # "absent"
  /\ read' = [read EXCEPT ![r] = manifest]
  /\ MovesTo(r, IF manifest.kind = "bare" THEN "panicked" ELSE "empty manifest")
  /\ UNCHANGED <<requested, unitFile, unitRuns, manifest, card, mixed, torn>>

(* Mutant of updateCommandInContainer: a flag that is set is left alone.   *)
updateIfUnset(y, s) ==
  IF y.kind = "blank" THEN Braces
  ELSE IF y.kind = "pod" /\ y.flags = <<>> THEN Yaml("pod", <<s>>) ELSE y

(* A flag is appended unless that very text is there; an empty file is     *)
(* read as no map and written as an empty one.                             *)
updateCommandInContainer(y, s) ==
  IF y.kind = "blank" THEN Braces
  ELSE IF y.kind = "pod" /\ ~Contains(y.flags, s)
    THEN Yaml("pod", Append(y.flags, s))
    ELSE y

EmptyManifest(r) ==
  /\ at[r] = "empty manifest"
  /\ manifest' = Blank
  /\ MovesTo(r, "fill manifest")
  /\ UNCHANGED <<requested, unitFile, unitRuns, card, read, mixed, torn>>

FillManifest(r) ==
  /\ at[r] = "fill manifest"
  /\ manifest' = updateCommandInContainer(read[r], setting[r])
  /\ Took(r, "chmod")
  /\ UNCHANGED <<requested, unitFile, unitRuns, card, read, mixed, torn>>

Chmod(r) ==
  /\ at[r] = "chmod"
  /\ Took(r, "ok")
  /\ UNCHANGED <<requested, unitFile, unitRuns, manifest, card, read, mixed, torn>>

(* The machine goes down: requests under way fail, and units that nobody   *)
(* has enabled are not started again.                                      *)
ConfigReboot ==
  /\ unitRuns' = [u \in Unit |-> None]
  /\ at' = [r \in ConfigRequest |-> IF r \in Configuring THEN "failed" ELSE at[r]]
  /\ UNCHANGED <<requested, unitFile, manifest, card, read, mixed, torn>>

----------------------------------------------------------------------------
ConfigureUnit(r) == \/ GetSpecifyNetCard(r) \/ EmptyFile(r) \/ FillFile(r)
                    \/ DaemonReload(r) \/ StartService(r)

ModifyConfig(r) == ReadBytes(r) \/ EmptyManifest(r) \/ FillManifest(r) \/ Chmod(r)

ConfigNext ==
  \/ \E r \in ConfigRequest :
       Configure(r) \/ ConfigError(r) \/ WriteError(r) \/ ConfigureUnit(r)
       \/ ModifyConfig(r)
  \/ \E u \in Unit : UnitStops(u)

ConfigSpec ==
  /\ MachineInit /\ ConfigInit
  /\ [][\/ ConfigNext /\ UNCHANGED machine
        \/ ConfigReboot /\ MachineReboots]_<<machine, configVars>>

----------------------------------------------------------------------------
(* r is answered without an error by this step, and was alone.             *)
Succeeds(r) == at[r] # "ok" /\ at'[r] = "ok" /\ r \notin mixed

(* What a success of Configure is worth: the login is root, the file is    *)
(* the request's own, and the unit runs; but with the request's own        *)
(* configuration only if it did not run before, since nothing restarts it, *)
(* and for Keepalived perhaps without an interface.  A unit runs with an   *)
(* empty file only when two requests overlap.                              *)
ConfigurationInEffect ==
  [][/\ (\E u \in Unit : unitRuns'[u] = Emptied) => mixed' # {}
     /\ \A r \in ConfigRequest : Succeeds(r) /\ service[r] \in Unit =>
          LET u   == service[r]
              own == Config(setting[r], card[r])
          IN  /\ root /\ unitFile[u] = own
              /\ unitRuns'[u] \in {own, found[r]} \ {None}
              /\ ~card[r] => u = "keepalived"
    ]_configVars

(* What a success of ConfigureManifest is worth: the API server's flags    *)
(* say what the request asked for, unless that text was among them before, *)
(* in front of others that it does not override, or the manifest has no    *)
(* container of that name, or was empty.                                   *)
OidcTakesEffect ==
  [][\A r \in ConfigRequest : Succeeds(r) /\ service[r] = "apiserver" =>
       \/ read[r].kind = "pod" /\ manifest.kind = "pod"
          /\ \/ Last(manifest.flags) = setting[r]
             \/ Contains(read[r].flags, setting[r])
       \/ read[r].kind # "pod" /\ Len(manifest.flags) = 0
    ]_configVars

(* As long as no two requests overlap, the machine stays up and no write   *)
(* fails half-way, nothing that goes wrong in between costs the manifest   *)
(* anything: it keeps its kind and its flags, and has those of all         *)
(* requests that succeeded.  What else may happen to it is to be emptied:  *)
(* by a write that failed, or when a request reads it between the two      *)
(* halves of another one's write, or after a reboot or such a failure      *)
(* there, and makes an empty map of it and reports success.                *)
ManifestKept ==
  LET harmed == mixed # {} \/ torn # {} \/ reboots > 0
  IN  /\ manifest.kind \in {"blank", "braces"} /\ Configuring = {} => harmed
      /\ ~harmed /\ Configuring = {} =>
           /\ manifest.kind = asBefore.kind
           /\ IsPrefix(asBefore.flags, manifest.flags)
           /\ \A r \in ConfigRequest :
                at[r] = "ok" /\ service[r] = "apiserver" /\ manifest.kind = "pod" =>
                  Contains(manifest.flags, setting[r])
=============================================================================
