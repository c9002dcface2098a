-------------------------- MODULE HostRequestsProofs --------------------------
(***************************************************************************)
(* Proofs about the requests of one machine, for any requests, devices,    *)
(* records and manifests, any number of reboots, and files of any length:  *)
(* the disk mount, the configuration of services, the nameservers, and the *)
(* methods that edit /etc/hosts.                                           *)
(***************************************************************************)
EXTENDS HostRequests, FiniteSetTheorems, SequenceTheorems, WellFoundedInduction, TLAPS

(* A step of the machine is one of its parts' or a reboot of all of them.  *)
LEMMA PartsOf ==
  ASSUME [Next]_vars
  PROVE  /\ MountNext \/ MountReboot \/ UNCHANGED mountVars
         /\ \/ FilesNext \/ FilesReboot \/ UNCHANGED fileVars
         /\ \/ ConfigNext /\ UNCHANGED machine
            \/ ConfigReboot /\ MachineReboots
            \/ UNCHANGED <<configVars, machine>>
BY DEF Next, vars, Files, Disk, Service, Reboot

----------------------------------------------------------------------------
(* Disk mount.                                                             *)

(* The volumes nest, and a request knows how far its device has come: from *)
(* vgextend on it is the one that has put the device in the group, from    *)
(* lvextend on the device is in the root volume, and at last in the file   *)
(* system.  All of these sets only grow.                                   *)
Nested == fs \subseteq lv /\ lv \subseteq vg

Progress ==
  \A r \in MountRequest :
    /\ step[r] \in {"lvextend", "xfs_growfs", "ok"} => r \in joined
    /\ r \in joined => DeviceOf[r] \in vg
    /\ step[r] \in {"xfs_growfs", "ok"} => DeviceOf[r] \in lv
    /\ step[r] = "ok" => DeviceOf[r] \in fs

OneJoiner ==
  \A r, q \in joined : DeviceOf[r] = DeviceOf[q] => r = q

MountInv == MountTypeOK /\ Nested /\ Progress /\ OneJoiner

LEMMA MountInitInv == MountInit => MountInv
  BY MountAssumption
     DEF MountInit, MountInv, MountTypeOK, Nested, Progress, OneJoiner, Command

(* A step of one request.                                                  *)
LEMMA MountStepInv ==
  ASSUME MountInv, NEW r \in MountRequest, MountStep(r)
  PROVE  MountInv'
<1> USE MountAssumption
    DEF MountInv, MountTypeOK, Nested, Progress, OneJoiner, Command, Done, disk
<1>1. CASE Mount(r) BY <1>1 DEF Mount
<1>2. CASE QueryVGName(r) BY <1>2 DEF QueryVGName
<1>3. CASE CreatePV(r) BY <1>3 DEF CreatePV
<1>4. CASE ExtendVG(r) BY <1>4 DEF ExtendVG
<1>5. CASE ExtendLVPercent100(r) BY <1>5 DEF ExtendLVPercent100
<1>6. CASE XGrowFS(r) BY <1>6 DEF XGrowFS
<1>7. CASE MountError(r) BY <1>7 DEF MountError
<1> QED BY <1>1, <1>2, <1>3, <1>4, <1>5, <1>6, <1>7, MountStep(r) DEF MountStep

LEMMA MountInductive ==
  MountInv /\ (MountNext \/ MountReboot \/ UNCHANGED mountVars) => MountInv'
<1> SUFFICES ASSUME MountInv, MountNext \/ MountReboot \/ UNCHANGED mountVars
             PROVE  MountInv'
  OBVIOUS
<1>1. CASE MountNext
  BY <1>1, MountStepInv DEF MountNext
<1>2. CASE MountReboot
  BY <1>2, MountAssumption
     DEF MountReboot, MountInv, MountTypeOK, Nested, Progress, OneJoiner, Command, disk
<1>3. CASE UNCHANGED mountVars
  BY <1>3 DEF mountVars, disk, MountInv, MountTypeOK, Nested, Progress, OneJoiner
<1> QED BY <1>1, <1>2, <1>3

LEMMA MountHolds == Spec => []MountInv
<1>1. Init => MountInv
  BY MountInitInv DEF Init
<1>2. MountInv /\ [Next]_vars => MountInv'
  BY PartsOf, MountInductive
<1> QED BY <1>1, <1>2, PTL DEF Spec

(* The state of the volumes and of the requests stays well typed.          *)
THEOREM MountTypeCorrect == Spec => []MountTypeOK
<1>1. MountInv => MountTypeOK BY DEF MountInv
<1> QED BY <1>1, MountHolds, PTL

(* An answer without an error (service/os.go, Mount) means that the root   *)
(* file system has grown over the device.                                  *)
THEOREM MountIsHonest == Spec => []MountedMeansGrown
<1>1. MountInv => MountedMeansGrown
  BY DEF MountInv, Progress, MountedMeansGrown
<1> QED BY <1>1, MountHolds, PTL

(* After a request that has failed half-way no other request for the same  *)
(* device ever succeeds.                                                   *)
THEOREM NoRetry == Spec => []RetryNeverCompletes
<1>1. MountInv => RetryNeverCompletes
  BY DEF MountInv, Progress, OneJoiner, RetryNeverCompletes
<1> QED BY <1>1, MountHolds, PTL

(* The same of a machine whose disks are all that requests work on.        *)
THEOREM MountAlone ==
  MountSpec => [](MountTypeOK /\ MountedMeansGrown /\ RetryNeverCompletes)
<1>1. MountInv => MountTypeOK /\ MountedMeansGrown /\ RetryNeverCompletes
  BY DEF MountInv, Progress, OneJoiner, MountedMeansGrown, RetryNeverCompletes
<1>2. MountInv /\ [\/ MountNext /\ UNCHANGED machine
                   \/ MountReboot /\ MachineReboots]_<<machine, mountVars>> => MountInv'
  BY MountInductive
<1> QED BY <1>1, <1>2, MountInitInv, PTL DEF MountSpec

----------------------------------------------------------------------------
(* Service configuration.                                                  *)

Values == [setting : Setting \cup {"old", "none"}, card : BOOLEAN]
Yamls  == {m \in [kind : {"absent", "bare", "other", "pod", "blank", "braces"},
                  flags : Seq(Setting)] : m.kind # "pod" => m.flags = <<>>}

UnitPlaces     == {"card", "empty file", "fill file", "reload", "start"}
ManifestPlaces == {"read", "empty manifest", "fill manifest", "chmod"}

ConfigTypeOK ==
  /\ service \in [ConfigRequest -> Unit \cup {"apiserver", "none"}]
  /\ setting \in [ConfigRequest -> Setting \cup {"none"}]
  /\ unitFile \in [Unit -> Values \cup {None}]
  /\ unitRuns \in [Unit -> Values \cup {None}]
  /\ manifest \in Yamls /\ asBefore \in Manifest
  /\ at \in [ConfigRequest -> UnitPlaces \cup ManifestPlaces \cup Ended \cup {"idle"}]
  /\ card \in [ConfigRequest -> BOOLEAN]
  /\ read \in [ConfigRequest -> Yamls]
  /\ found \in [ConfigRequest -> Values \cup {None}]
  /\ mixed \subseteq ConfigRequest /\ torn \subseteq ConfigRequest
  /\ root \in BOOLEAN /\ reboots \in Nat

(* A request is at a command of its own service.                           *)
OwnCommands ==
  \A r \in ConfigRequest :
    /\ at[r] \in UnitPlaces => service[r] \in Unit
    /\ at[r] \in ManifestPlaces => service[r] = "apiserver"
    /\ at[r] = "card" => service[r] = "keepalived"
    /\ at[r] # "idle" => setting[r] \in Setting
    /\ at[r] \in {"fill file", "reload", "start"} => root
    /\ card[r] \/ (at[r] # "idle" /\ service[r] = "keepalived")

(* Requests that are under way at once know it.                            *)
AloneOrMixed ==
  \A r, q \in Configuring : r # q => r \in mixed

(* What one that is alone finds in its unit's file is what it has written, *)
(* and the unit is as it was or has stopped.                               *)
OwnUnit ==
  \A r \in Configuring \ mixed : service[r] \in Unit =>
    /\ at[r] \in {"reload", "start"} =>
         unitFile[service[r]] = Config(setting[r], card[r])
    /\ unitRuns[service[r]] \in {None, found[r]}

NeverEmptied == mixed = {} => \A u \in Unit : unitRuns[u] # Emptied

(* What it finds in the manifest before it is done is what it has made of  *)
(* it.                                                                     *)
OwnManifest ==
  \A r \in Configuring \ mixed :
    at[r] = "chmod" => manifest = updateCommandInContainer(read[r], setting[r])

(* A manifest that has lost nothing of the first one, nor what requests    *)
(* have put into it.                                                       *)
Kept(m) ==
  /\ m.kind = asBefore.kind
  /\ IsPrefix(asBefore.flags, m.flags)
  /\ \A r \in ConfigRequest :
       at[r] = "ok" /\ service[r] = "apiserver" /\ m.kind = "pod" =>
         Contains(m.flags, setting[r])

(* Until two requests overlap, the machine goes down or a write fails      *)
(* half-way, such a one is in the file, or in the hands of the request     *)
(* that has emptied it.                                                    *)
KeptSomewhere ==
  mixed = {} /\ torn = {} /\ reboots = 0 =>
    /\ (\A r \in ConfigRequest : at[r] # "fill manifest") => Kept(manifest)
    /\ \A r \in ConfigRequest : at[r] = "empty manifest" => read[r] = manifest
    /\ \A r \in ConfigRequest : at[r] = "fill manifest" => Kept(read[r])

ConfigInv == /\ ConfigTypeOK /\ OwnCommands /\ AloneOrMixed /\ OwnUnit /\ NeverEmptied
             /\ OwnManifest /\ KeptSomewhere

LEMMA ConfigInitInv == MachineInit /\ ConfigInit => ConfigInv
<1> SUFFICES ASSUME MachineInit, ConfigInit PROVE ConfigInv
  OBVIOUS
<1>1. ConfigTypeOK
  <2>1. manifest \in Yamls /\ asBefore \in Manifest
    BY ConfigAssumption DEF ConfigInit, Yamls
  <2>2. Blank \in Yamls
    BY DEF Blank, Yaml, Yamls
  <2>3. Old \in Values
    BY DEF Old, Config, Values
  <2> QED BY <2>1, <2>2, <2>3 DEF ConfigInit, MachineInit, ConfigTypeOK
<1>2. Configuring = {}
  BY DEF ConfigInit, Configuring
<1>3. NeverEmptied
  <2>1. Old # Emptied /\ None # Emptied
    <3>1. Emptied \in Values
      BY DEF Emptied, Config, Values
    <3>2. Old.setting # Emptied.setting
      BY DEF Old, Emptied, Config
    <3> QED BY <3>1, <3>2, ConfigAssumption DEF Values
  <2> QED BY <2>1 DEF NeverEmptied, ConfigInit
<1>4. OwnCommands /\ AloneOrMixed /\ OwnUnit /\ OwnManifest
  BY <1>2 DEF ConfigInit, OwnCommands, AloneOrMixed, OwnUnit, OwnManifest, UnitPlaces,
              ManifestPlaces
<1>5. KeptSomewhere
  <2>1. manifest \in Yamls /\ manifest = asBefore
    BY <1>1 DEF ConfigTypeOK, ConfigInit
  <2>2. IsPrefix(asBefore.flags, manifest.flags)
    BY <2>1 DEF IsPrefix, Yamls
  <2> QED BY <2>1, <2>2 DEF KeptSomewhere, Kept, ConfigInit
<1> QED BY <1>1, <1>3, <1>4, <1>5 DEF ConfigInv

(* What a request makes of the manifest it has read.                       *)
MadeOf(y, s, z) ==
  /\ z \in Yamls
  /\ y.kind # "blank" => z.kind = y.kind
  /\ \A a \in Seq(Setting) : IsPrefix(a, y.flags) => IsPrefix(a, z.flags)
  /\ \A x : Contains(y.flags, x) => Contains(z.flags, x)
  /\ z.kind = "pod" => /\ y.kind = "pod"
                       /\ Contains(z.flags, s)
                       /\ Last(z.flags) = s \/ Contains(y.flags, s)

LEMMA Updated ==
  ASSUME NEW y \in Yamls, NEW s \in Setting
  PROVE  MadeOf(y, s, updateCommandInContainer(y, s))
<1> DEFINE z == updateCommandInContainer(y, s)
<1> SUFFICES MadeOf(y, s, z)
  OBVIOUS
<1>1. y.flags \in Seq(Setting) /\ (y.kind # "pod" => y.flags = <<>>)
  BY DEF Yamls
<1>2. CASE y.kind = "blank"
  <2>1. z = Braces /\ Braces.kind = "braces" /\ Braces.flags = <<>>
    BY <1>2 DEF updateCommandInContainer, Braces, Yaml
  <2>2. Braces \in Yamls
    BY DEF Braces, Yaml, Yamls
  <2>3. y.flags = <<>>
    BY <1>1, <1>2
  <2>4. \A x : ~Contains(<<>>, x)
    BY DEF Contains
  <2> HIDE DEF z
  <2> QED BY <1>2, <2>1, <2>2, <2>3 DEF MadeOf
<1>3. CASE y.kind = "pod" /\ ~Contains(y.flags, s)
  <2>1. z = Yaml("pod", Append(y.flags, s))
    BY <1>3 DEF updateCommandInContainer
  <2>2. z.kind = "pod" /\ z.flags = Append(y.flags, s) /\ z \in Yamls
    BY <1>1, <2>1 DEF Yaml, Yamls
  <2>3. /\ Len(Append(y.flags, s)) = Len(y.flags) + 1 /\ Len(y.flags) \in Nat
        /\ \A i \in 1..Len(y.flags) : Append(y.flags, s)[i] = y.flags[i]
        /\ Append(y.flags, s)[Len(y.flags) + 1] = s
    BY <1>1
  <2>4. \A a \in Seq(Setting) : IsPrefix(a, y.flags) => IsPrefix(a, Append(y.flags, s))
    BY <1>1 DEF IsPrefix
  <2>5. /\ \A x : Contains(y.flags, x) => Contains(Append(y.flags, s), x)
        /\ Contains(Append(y.flags, s), s)
        /\ Last(Append(y.flags, s)) = s
    BY <2>3 DEF Contains, Last
  <2> HIDE DEF z
  <2> QED BY <1>3, <2>2, <2>4, <2>5 DEF MadeOf
<1>4. CASE y.kind # "blank" /\ ~(y.kind = "pod" /\ ~Contains(y.flags, s))
  <2>1. z = y
    BY <1>4 DEF updateCommandInContainer
  <2> HIDE DEF z
  <2> QED BY <1>4, <2>1 DEF MadeOf
<1> QED BY <1>2, <1>3, <1>4

(* A command of a request, a unit that stops, or a reboot.                 *)
ConfigCommand(r) ==
  \/ ConfigError(r) \/ WriteError(r) \/ GetSpecifyNetCard(r) \/ EmptyFile(r) \/ FillFile(r)
  \/ DaemonReload(r) \/ StartService(r) \/ ReadBytes(r) \/ EmptyManifest(r)
  \/ FillManifest(r) \/ Chmod(r)

LEMMA ConfigSteps ==
  ASSUME ConfigNext
  PROVE  \/ \E r \in ConfigRequest : Configure(r) \/ ConfigCommand(r)
         \/ \E u \in Unit : UnitStops(u)
BY DEF ConfigNext, ConfigureUnit, ModifyConfig, ConfigCommand

(* A command moves its own request on, from one that is under way, and     *)
(* changes nothing of the others'.                                         *)
LEMMA CommandMoves ==
  ASSUME ConfigTypeOK, NEW r \in ConfigRequest, ConfigCommand(r)
  PROVE  /\ r \in Configuring
         /\ \E l \in (UnitPlaces \cup ManifestPlaces \cup Ended) \ {at[r]} : MovesTo(r, l)
         /\ UNCHANGED requested /\ mixed' = mixed
         /\ Configuring' \subseteq Configuring
         /\ \A q \in ConfigRequest \ {r} :
              at'[q] = at[q] /\ card'[q] = card[q] /\ read'[q] = read[q]
<1> USE DEF ConfigTypeOK, MovesTo, Took, UnitPlaces, ManifestPlaces, Ended, Configuring, requested
<1>1. CASE ConfigError(r) BY <1>1 DEF ConfigError
<1>2. CASE GetSpecifyNetCard(r) BY <1>2 DEF GetSpecifyNetCard
<1>3. CASE EmptyFile(r) BY <1>3 DEF EmptyFile
<1>4. CASE FillFile(r) BY <1>4 DEF FillFile
<1>5. CASE DaemonReload(r) BY <1>5 DEF DaemonReload
<1>6. CASE StartService(r) BY <1>6 DEF StartService
<1>7. CASE ReadBytes(r)
  <2>1. \E l \in {"panicked", "empty manifest"} : at' = [at EXCEPT ![r] = l]
    BY <1>7 DEF ReadBytes
  <2> QED BY <1>7, <2>1 DEF ReadBytes
<1>8. CASE EmptyManifest(r) BY <1>8 DEF EmptyManifest
<1>9. CASE FillManifest(r) BY <1>9 DEF FillManifest
<1>10. CASE Chmod(r) BY <1>10 DEF Chmod
<1>11. CASE WriteError(r) BY <1>11 DEF WriteError
<1> QED BY <1>1, <1>2, <1>3, <1>4, <1>5, <1>6, <1>7, <1>8, <1>9, <1>10, <1>11,
           ConfigCommand(r) DEF ConfigCommand

LEMMA Begins ==
  ASSUME ConfigTypeOK, NEW r \in ConfigRequest, Configure(r)
  PROVE  /\ at[r] = "idle" /\ Configuring' = Configuring \cup {r}
         /\ \E s \in Unit \cup {"apiserver"} : service' = [service EXCEPT ![r] = s]
         /\ setting'[r] \in Setting
         /\ \A q \in ConfigRequest \ {r} : /\ at'[q] = at[q] /\ service'[q] = service[q]
                                          /\ setting'[q] = setting[q] /\ found'[q] = found[q]
         /\ mixed' = mixed \cup (IF Configuring = {} THEN {} ELSE Configuring \cup {r})
         /\ at'[r] = CASE service'[r] = "haproxy" -> "empty file"
                       [] service'[r] = "keepalived" -> "card" [] OTHER -> "read"
         /\ service'[r] \in Unit => found'[r] = unitRuns[service'[r]]
<1>1. PICK s \in Unit \cup {"apiserver"} :
        /\ service' = [service EXCEPT ![r] = s]
        /\ MovesTo(r, CASE s = "haproxy" -> "empty file" [] s = "keepalived" -> "card"
                      [] OTHER -> "read")
        /\ found' = [found EXCEPT ![r] = IF s \in Unit THEN unitRuns[s] ELSE None]
  BY DEF Configure
<1>2. PICK l \in {"empty file", "card", "read"} : at' = [at EXCEPT ![r] = l]
  BY <1>1 DEF MovesTo, Unit
<1>3. at[r] = "idle"
  BY DEF Configure
<1>4. at'[r] = l /\ \A q \in ConfigRequest \ {r} : at'[q] = at[q]
  BY <1>2 DEF ConfigTypeOK
<1>5. Configuring' = Configuring \cup {r}
  BY <1>3, <1>4 DEF Configuring, Ended
<1>6. PICK v \in Setting : setting' = [setting EXCEPT ![r] = v]
  BY DEF Configure
<1>7. service'[r] = s /\ \A q \in ConfigRequest \ {r} : service'[q] = service[q]
  BY <1>1 DEF ConfigTypeOK
<1>8. at'[r] = CASE service'[r] = "haproxy" -> "empty file"
                 [] service'[r] = "keepalived" -> "card" [] OTHER -> "read"
  BY <1>1, <1>7 DEF ConfigTypeOK, MovesTo
<1>9. /\ found'[r] = IF s \in Unit THEN unitRuns[s] ELSE None
      /\ \A q \in ConfigRequest \ {r} : found'[q] = found[q]
  BY <1>1 DEF ConfigTypeOK
<1>10. setting'[r] = v /\ \A q \in ConfigRequest \ {r} : setting'[q] = setting[q]
  BY <1>6 DEF ConfigTypeOK
<1>11. mixed' = mixed \cup (IF Configuring = {} THEN {} ELSE Configuring \cup {r})
  BY DEF Configure
<1> QED BY <1>1, <1>3, <1>4, <1>5, <1>7, <1>8, <1>9, <1>10, <1>11

LEMMA ConfigTypeStep ==
  ASSUME ConfigTypeOK, OwnCommands, ConfigNext /\ UNCHANGED machine
  PROVE  ConfigTypeOK'
<1>1. Blank \in Yamls /\ Emptied \in Values
  BY DEF Blank, Yaml, Yamls, Emptied, Config, Values
<1>2. root' = root /\ reboots' = reboots
  BY DEF machine
<1> USE DEF ConfigTypeOK, MovesTo, Took, UnitPlaces, ManifestPlaces, Ended, requested
<1>3. ASSUME NEW r \in ConfigRequest, Configure(r) PROVE ConfigTypeOK'
  <2>1. /\ \E s \in Unit \cup {"apiserver"} : service' = [service EXCEPT ![r] = s]
        /\ \E s \in Setting : setting' = [setting EXCEPT ![r] = s]
        /\ \E c \in Values \cup {None} : found' = [found EXCEPT ![r] = c]
        /\ \E l \in {"empty file", "card", "read"} : at' = [at EXCEPT ![r] = l]
        /\ mixed' \subseteq ConfigRequest
        /\ UNCHANGED <<asBefore, unitFile, unitRuns, manifest, card, read, torn>>
    BY <1>3 DEF Configure, Configuring
  <2>2. service' \in [ConfigRequest -> Unit \cup {"apiserver", "none"}]
    <3>1. service \in [ConfigRequest -> Unit \cup {"apiserver", "none"}]
      OBVIOUS
    <3> HIDE DEF ConfigTypeOK
    <3> QED BY <2>1, <3>1
  <2>3. setting' \in [ConfigRequest -> Setting \cup {"none"}]
    <3>1. setting \in [ConfigRequest -> Setting \cup {"none"}]
      OBVIOUS
    <3> HIDE DEF ConfigTypeOK
    <3> QED BY <2>1, <3>1
  <2>4. found' \in [ConfigRequest -> Values \cup {None}]
    <3>1. found \in [ConfigRequest -> Values \cup {None}]
      OBVIOUS
    <3> HIDE DEF ConfigTypeOK
    <3> QED BY <2>1, <3>1
  <2>5. at' \in [ConfigRequest -> UnitPlaces \cup ManifestPlaces \cup Ended \cup {"idle"}]
    <3>1. at \in [ConfigRequest -> UnitPlaces \cup ManifestPlaces \cup Ended \cup {"idle"}]
      OBVIOUS
    <3>2. {"empty file", "card", "read"} \subseteq UnitPlaces \cup ManifestPlaces
      OBVIOUS
    <3> HIDE DEF ConfigTypeOK, UnitPlaces, ManifestPlaces, Ended
    <3> QED BY <2>1, <3>1, <3>2
  <2> QED BY <1>2, <2>1, <2>2, <2>3, <2>4, <2>5
<1>4. ASSUME NEW u \in Unit, UnitStops(u) PROVE ConfigTypeOK'
  BY <1>2, <1>4 DEF UnitStops
<1>5. ASSUME NEW r \in ConfigRequest, ConfigCommand(r) PROVE ConfigTypeOK'
  <2>1. at' \in [ConfigRequest -> UnitPlaces \cup ManifestPlaces \cup Ended \cup {"idle"}]
    <3>1. at \in [ConfigRequest -> UnitPlaces \cup ManifestPlaces \cup Ended \cup {"idle"}]
      OBVIOUS
    <3> HIDE DEF ConfigTypeOK, UnitPlaces, ManifestPlaces, Ended
    <3>2. \E l \in UnitPlaces \cup ManifestPlaces \cup Ended : at' = [at EXCEPT ![r] = l]
      BY <1>5, CommandMoves DEF MovesTo
    <3> QED BY <3>1, <3>2
  <2>2. /\ service' = service /\ setting' = setting /\ found' = found
        /\ asBefore' = asBefore /\ mixed' = mixed
    BY <1>5, CommandMoves DEF requested
  <2>3. unitFile' \in [Unit -> Values \cup {None}]
    <3>1. setting[r] \in Setting \cup {"none"} /\ card[r] \in BOOLEAN
      OBVIOUS
    <3>2. Config(setting[r], card[r]) \in Values
      BY <3>1 DEF Config, Values
    <3>3. \/ unitFile' = unitFile
          \/ \E c \in {Emptied, Config(setting[r], card[r])} :
               unitFile' = [unitFile EXCEPT ![service[r]] = c]
      <4>1. CASE EmptyFile(r)
        BY <4>1 DEF EmptyFile
      <4>2. CASE FillFile(r)
        BY <4>2 DEF FillFile
      <4>3. CASE ConfigCommand(r) /\ ~EmptyFile(r) /\ ~FillFile(r)
        BY <4>3 DEF ConfigCommand, ConfigError, WriteError, GetSpecifyNetCard, DaemonReload,
                    StartService, ReadBytes, EmptyManifest, FillManifest, Chmod
      <4> QED BY <1>5, <4>1, <4>2, <4>3
    <3>4. Emptied \in Values
      BY <1>1 DEF Emptied
    <3>5. unitFile \in [Unit -> Values \cup {None}]
      OBVIOUS
    <3> HIDE DEF ConfigTypeOK
    <3> QED BY <3>2, <3>3, <3>4, <3>5
  <2>4. unitRuns' \in [Unit -> Values \cup {None}]
    <3>1. CASE StartService(r)
      <4>1. service[r] \in Unit
        BY <3>1 DEF StartService, OwnCommands
      <4> QED BY <3>1, <4>1 DEF StartService
    <3>2. CASE ~StartService(r)
      BY <1>5, <3>2
         DEF ConfigCommand, ConfigError, WriteError, GetSpecifyNetCard, EmptyFile, FillFile,
             DaemonReload, ReadBytes, EmptyManifest, FillManifest, Chmod
    <3> QED BY <3>1, <3>2
  <2>5. manifest' \in Yamls
    <3>1. CASE FillManifest(r)
      <4>1. setting[r] \in Setting /\ read[r] \in Yamls
        BY <3>1 DEF FillManifest, OwnCommands
      <4> QED BY <3>1, <4>1, Updated DEF FillManifest, MadeOf
    <3>2. CASE ~FillManifest(r)
      BY <1>1, <1>5, <3>2
         DEF ConfigCommand, ConfigError, WriteError, GetSpecifyNetCard, EmptyFile, FillFile,
             DaemonReload, StartService, ReadBytes, EmptyManifest, Chmod
    <3> QED BY <3>1, <3>2
  <2>6. card' \in [ConfigRequest -> BOOLEAN]
    <3>1. card' = card \/ \E c \in BOOLEAN : card' = [card EXCEPT ![r] = c]
      BY <1>5
         DEF ConfigCommand, ConfigError, WriteError, GetSpecifyNetCard, EmptyFile, FillFile,
             DaemonReload, StartService, ReadBytes, EmptyManifest, FillManifest, Chmod
    <3> QED BY <3>1
  <2>7. read' \in [ConfigRequest -> Yamls]
    BY <1>5
       DEF ConfigCommand, ConfigError, WriteError, GetSpecifyNetCard, EmptyFile, FillFile,
           DaemonReload, StartService, ReadBytes, EmptyManifest, FillManifest, Chmod
  <2>8. torn' \subseteq ConfigRequest
    <3>1. torn' \subseteq torn \cup {r}
      BY <1>5
         DEF ConfigCommand, ConfigError, WriteError, GetSpecifyNetCard, EmptyFile, FillFile,
             DaemonReload, StartService, ReadBytes, EmptyManifest, FillManifest, Chmod
    <3> QED BY <3>1
  <2> QED BY <1>2, <2>1, <2>2, <2>3, <2>4, <2>5, <2>6, <2>7, <2>8
<1> QED BY <1>3, <1>4, <1>5, ConfigSteps

LEMMA CommandsStep ==
  ASSUME ConfigTypeOK, OwnCommands, ConfigNext, UNCHANGED machine
  PROVE  OwnCommands'
<1>1. root' = root
  BY DEF machine
<1>2. ASSUME NEW r \in ConfigRequest, Configure(r) PROVE OwnCommands'
  <2>1. card[r] /\ card' = card
    BY <1>2 DEF OwnCommands, Configure
  <2>2. service'[r] = "keepalived" => at'[r] = "card"
    BY <1>2, Begins
  <2>3. at'[r] \in {"empty file", "read", "card"}
    BY <1>2, Begins DEF ConfigTypeOK
  <2>4. /\ at'[r] \in {"empty file", "card"} => service'[r] \in Unit
        /\ at'[r] = "card" => service'[r] = "keepalived"
        /\ at'[r] = "read" => service'[r] = "apiserver"
    <3>1. service'[r] \in Unit \cup {"apiserver"}
      <4>1. PICK s \in Unit \cup {"apiserver"} : service' = [service EXCEPT ![r] = s]
        BY <1>2, Begins
      <4> QED BY <4>1 DEF ConfigTypeOK
    <3> QED BY <1>2, <3>1, Begins DEF Unit
  <2>5. setting'[r] \in Setting
    BY <1>2, Begins
  <2>6. ASSUME NEW q \in ConfigRequest \ {r}
        PROVE  /\ at'[q] = at[q] /\ service'[q] = service[q]
               /\ setting'[q] = setting[q] /\ card'[q] = card[q]
    BY <1>2, <2>1, Begins
  <2> QED BY <1>1, <2>1, <2>2, <2>3, <2>4, <2>5, <2>6
          DEF OwnCommands, UnitPlaces, ManifestPlaces
<1>3. ASSUME NEW u \in Unit, UnitStops(u) PROVE OwnCommands'
  BY <1>1, <1>3 DEF UnitStops, OwnCommands, requested
<1>4. ASSUME NEW r \in ConfigRequest, ConfigCommand(r) PROVE OwnCommands'
  <2>1. /\ service' = service /\ setting' = setting
        /\ \A q \in ConfigRequest \ {r} : at'[q] = at[q] /\ card'[q] = card[q]
        /\ at[r] # "idle"
    BY <1>4, CommandMoves DEF requested, Configuring
  <2>2. /\ at'[r] \in UnitPlaces => service[r] \in Unit
        /\ at'[r] \in ManifestPlaces => service[r] = "apiserver"
        /\ at'[r] # "card" /\ at'[r] # "idle"
        /\ at'[r] \in {"fill file", "reload", "start"} => root
        /\ card'[r] \/ service[r] = "keepalived"
    <3> USE DEF ConfigTypeOK, OwnCommands, UnitPlaces, ManifestPlaces, Ended, MovesTo, Took
    <3>1. CASE ConfigError(r)
      <4>1. at'[r] = "failed" /\ card' = card /\ at[r] \notin {"idle", "card"}
        BY <2>1, <3>1 DEF ConfigError
      <4>2. card[r] \/ service[r] = "keepalived"
        BY <4>1
      <4> QED BY <4>1, <4>2
    <3>11. CASE WriteError(r)
      <4>1. at'[r] = "failed" /\ card' = card /\ at[r] \notin {"idle", "card"}
        BY <2>1, <3>11 DEF WriteError
      <4>2. card[r] \/ service[r] = "keepalived"
        BY <4>1
      <4> QED BY <4>1, <4>2
    <3>2. CASE GetSpecifyNetCard(r) BY <3>2 DEF GetSpecifyNetCard
    <3>3. CASE EmptyFile(r)
      <4>1. at[r] = "empty file" /\ at'[r] = "fill file" /\ root /\ card' = card
        BY <3>3 DEF EmptyFile
      <4> QED BY <4>1
    <3>4. CASE FillFile(r)
      <4>1. at'[r] \in {"reload", "failed"} /\ card' = card /\ at[r] = "fill file"
        BY <3>4 DEF FillFile
      <4> QED BY <4>1
    <3>5. CASE DaemonReload(r) BY <3>5 DEF DaemonReload
    <3>6. CASE StartService(r)
      <4>1. at'[r] \in {"ok", "failed"} /\ card' = card /\ at[r] = "start"
        BY <3>6 DEF StartService
      <4> QED BY <4>1
    <3>7. CASE ReadBytes(r)
      <4>1. \E l \in {"panicked", "empty manifest"} : at' = [at EXCEPT ![r] = l]
        BY <3>7 DEF ReadBytes
      <4>2. at'[r] \in {"panicked", "empty manifest"}
        BY <4>1
      <4>3. card' = card /\ at[r] = "read"
        BY <3>7 DEF ReadBytes
      <4> QED BY <4>2, <4>3
    <3>8. CASE EmptyManifest(r) BY <3>8 DEF EmptyManifest
    <3>9. CASE FillManifest(r)
      <4>1. at'[r] \in {"chmod", "failed"} /\ card' = card /\ at[r] = "fill manifest"
        BY <3>9 DEF FillManifest
      <4> QED BY <4>1
    <3>10. CASE Chmod(r)
      <4>1. at'[r] \in {"ok", "failed"} /\ card' = card /\ at[r] = "chmod"
        BY <3>10 DEF Chmod
      <4> QED BY <4>1
    <3> QED BY <1>4, <3>1, <3>2, <3>3, <3>4, <3>5, <3>6, <3>7, <3>8, <3>9, <3>10, <3>11
            DEF ConfigCommand
  <2>3. at'[r] # "idle" /\ setting[r] \in Setting
    BY <2>1, <2>2 DEF OwnCommands
  <2> QED BY <1>1, <2>1, <2>2, <2>3 DEF OwnCommands
<1> QED BY <1>2, <1>3, <1>4, ConfigSteps

LEMMA AloneStep ==
  ASSUME ConfigTypeOK, AloneOrMixed, ConfigNext
  PROVE  AloneOrMixed'
<1>1. ASSUME NEW r \in ConfigRequest, Configure(r) PROVE AloneOrMixed'
  <2>1. /\ Configuring' = Configuring \cup {r}
        /\ mixed' = mixed \cup (IF Configuring = {} THEN {} ELSE Configuring \cup {r})
    BY <1>1, Begins
  <2>2. CASE Configuring = {}
    BY <2>1, <2>2 DEF AloneOrMixed
  <2>3. CASE Configuring # {}
    BY <2>1, <2>3 DEF AloneOrMixed
  <2> QED BY <2>2, <2>3
<1>2. ASSUME NEW u \in Unit, UnitStops(u) PROVE AloneOrMixed'
  BY <1>2 DEF UnitStops, AloneOrMixed, Configuring
<1>3. ASSUME NEW r \in ConfigRequest, ConfigCommand(r) PROVE AloneOrMixed'
  <2>1. Configuring' \subseteq Configuring /\ mixed' = mixed
    BY <1>3, CommandMoves
  <2> QED BY <2>1 DEF AloneOrMixed
<1> QED BY <1>1, <1>2, <1>3, ConfigSteps

(* A request that is alone after a step has made it, or nobody has.        *)
LEMMA AloneActs ==
  ASSUME ConfigTypeOK, AloneOrMixed,
         NEW r \in ConfigRequest, Configure(r) \/ ConfigCommand(r),
         NEW q \in Configuring' \ mixed'
  PROVE  q = r
<1>1. CASE Configure(r)
  <2>1. /\ Configuring' = Configuring \cup {r}
        /\ mixed' = mixed \cup (IF Configuring = {} THEN {} ELSE Configuring \cup {r})
    BY <1>1, Begins
  <2>2. CASE Configuring = {}
    BY <2>1, <2>2
  <2>3. CASE Configuring # {}
    BY <2>1, <2>3
  <2> QED BY <2>2, <2>3
<1>2. CASE ConfigCommand(r)
  <2>1. Configuring' \subseteq Configuring /\ mixed' = mixed /\ r \in Configuring
    BY <1>2, CommandMoves
  <2> QED BY <2>1 DEF AloneOrMixed
<1> QED BY <1>1, <1>2

LEMMA OwnUnitStep ==
  ASSUME ConfigTypeOK, OwnCommands, AloneOrMixed, OwnUnit, ConfigNext
  PROVE  OwnUnit'
<1>1. ASSUME NEW r \in ConfigRequest, Configure(r) PROVE OwnUnit'
  <2>1. /\ at'[r] \in {"empty file", "card", "read"}
        /\ service'[r] \in Unit => found'[r] = unitRuns[service'[r]]
        /\ unitRuns' = unitRuns
    BY <1>1, Begins DEF Configure
  <2> QED BY <1>1, <2>1, AloneActs DEF OwnUnit
<1>2. ASSUME NEW u \in Unit, UnitStops(u) PROVE OwnUnit'
  <2>1. \A v \in Unit : unitRuns'[v] \in {None, unitRuns[v]}
    BY <1>2 DEF UnitStops, ConfigTypeOK
  <2>2. /\ Configuring' = Configuring /\ mixed' = mixed /\ service' = service /\ at' = at
        /\ unitFile' = unitFile /\ found' = found /\ setting' = setting /\ card' = card
    BY <1>2 DEF UnitStops, Configuring, requested
  <2> QED BY <2>1, <2>2 DEF OwnUnit
<1>3. ASSUME NEW r \in ConfigRequest, ConfigCommand(r) PROVE OwnUnit'
  <2> SUFFICES ASSUME r \in Configuring' \ mixed', service'[r] \in Unit
               PROVE  /\ at'[r] \in {"reload", "start"} =>
                           unitFile'[service'[r]] = Config(setting'[r], card'[r])
                      /\ unitRuns'[service'[r]] \in {None, found'[r]}
    BY <1>3, AloneActs DEF OwnUnit
  <2>1. /\ service' = service /\ setting' = setting /\ found' = found
        /\ r \in Configuring \ mixed
    BY <1>3, CommandMoves DEF requested
  <2>2. unitRuns[service[r]] \in {None, found[r]}
    BY <2>1 DEF OwnUnit
  <2>3. CASE FillFile(r)
    BY <2>1, <2>2, <2>3 DEF FillFile, ConfigTypeOK
  <2>4. CASE DaemonReload(r)
    BY <2>1, <2>2, <2>4 DEF DaemonReload, OwnUnit
  <2>5. CASE StartService(r)
    <3>1. at'[r] \in Ended
      BY <2>5 DEF StartService, Took, MovesTo, ConfigTypeOK, Ended
    <3> QED BY <3>1 DEF Configuring
  <2>6. CASE \/ ConfigError(r) \/ WriteError(r) \/ GetSpecifyNetCard(r) \/ EmptyFile(r) \/ ReadBytes(r)
             \/ EmptyManifest(r) \/ FillManifest(r) \/ Chmod(r)
    <3>1. at'[r] \notin {"reload", "start"}
      BY <2>6
         DEF ConfigError, WriteError, GetSpecifyNetCard, EmptyFile, ReadBytes, EmptyManifest,
             FillManifest, Chmod, MovesTo, Took, ConfigTypeOK
    <3>2. unitRuns' = unitRuns
      BY <2>6
         DEF ConfigError, WriteError, GetSpecifyNetCard, EmptyFile, ReadBytes, EmptyManifest,
             FillManifest, Chmod
    <3> QED BY <2>1, <2>2, <3>1, <3>2
  <2> QED BY <1>3, <2>3, <2>4, <2>5, <2>6 DEF ConfigCommand
<1> QED BY <1>1, <1>2, <1>3, ConfigSteps

LEMMA EmptiedStep ==
  ASSUME ConfigTypeOK, OwnCommands, OwnUnit, NeverEmptied, ConfigNext
  PROVE  NeverEmptied'
<1> SUFFICES ASSUME mixed' = {} PROVE \A u \in Unit : unitRuns'[u] # Emptied
  BY DEF NeverEmptied
<1>1. mixed = {}
  <2>1. ASSUME NEW r \in ConfigRequest, Configure(r) PROVE mixed \subseteq mixed'
    BY <2>1, Begins
  <2>2. ASSUME NEW r \in ConfigRequest, ConfigCommand(r) PROVE mixed' = mixed
    BY <2>2, CommandMoves
  <2>3. ASSUME NEW u \in Unit, UnitStops(u) PROVE mixed' = mixed
    BY <2>3 DEF UnitStops
  <2> QED BY <2>1, <2>2, <2>3, ConfigSteps
<1>2. \A u \in Unit : unitRuns[u] # Emptied
  BY <1>1 DEF NeverEmptied
<1>3. ASSUME NEW u \in Unit, UnitStops(u) PROVE \A v \in Unit : unitRuns'[v] # Emptied
  <2>1. None # Emptied
    <3>1. Emptied \in Values
      BY DEF Emptied, Config, Values
    <3> QED BY <3>1, ConfigAssumption DEF Values
  <2> QED BY <1>2, <1>3, <2>1 DEF UnitStops, ConfigTypeOK
<1>4. ASSUME NEW r \in ConfigRequest, StartService(r)
      PROVE  \A v \in Unit : unitRuns'[v] # Emptied
  <2>1. r \in Configuring \ mixed /\ at[r] = "start"
    BY <1>1, <1>4 DEF StartService, Configuring, Ended
  <2>2. service[r] \in Unit /\ setting[r] \in Setting
    BY <2>1 DEF OwnCommands, UnitPlaces
  <2>3. unitFile[service[r]] = Config(setting[r], card[r])
    BY <2>1, <2>2 DEF OwnUnit
  <2>4. Config(setting[r], card[r]) # Emptied
    <3>1. Config(setting[r], card[r]).setting # Emptied.setting
      BY <2>2, ConfigAssumption DEF Config, Emptied
    <3> QED BY <3>1
  <2> QED BY <1>2, <1>4, <2>2, <2>3, <2>4 DEF StartService, ConfigTypeOK
<1>5. ASSUME NEW r \in ConfigRequest, Configure(r) \/ ConfigCommand(r), ~StartService(r)
      PROVE  unitRuns' = unitRuns
  BY <1>5
     DEF Configure, ConfigCommand, ConfigError, WriteError, GetSpecifyNetCard, EmptyFile, FillFile,
         DaemonReload, ReadBytes, EmptyManifest, FillManifest, Chmod
<1> QED BY <1>2, <1>3, <1>4, <1>5, ConfigSteps

LEMMA OwnManifestStep ==
  ASSUME ConfigTypeOK, AloneOrMixed, OwnManifest, ConfigNext
  PROVE  OwnManifest'
<1>1. ASSUME NEW r \in ConfigRequest, Configure(r) PROVE OwnManifest'
  <2>1. at'[r] # "chmod"
    BY <1>1, Begins
  <2> QED BY <1>1, <2>1, AloneActs DEF OwnManifest
<1>2. ASSUME NEW u \in Unit, UnitStops(u) PROVE OwnManifest'
  BY <1>2 DEF UnitStops, OwnManifest, Configuring, requested
<1>3. ASSUME NEW r \in ConfigRequest, ConfigCommand(r) PROVE OwnManifest'
  <2> SUFFICES ASSUME at'[r] = "chmod"
               PROVE  manifest' = updateCommandInContainer(read'[r], setting'[r])
    BY <1>3, AloneActs DEF OwnManifest
  <2>1. FillManifest(r)
    BY <1>3
       DEF ConfigCommand, ConfigError, WriteError, GetSpecifyNetCard, EmptyFile, FillFile, DaemonReload,
           StartService, ReadBytes, EmptyManifest, Chmod, MovesTo, Took, ConfigTypeOK
  <2> QED BY <2>1 DEF FillManifest, requested
<1> QED BY <1>1, <1>2, <1>3, ConfigSteps

(* A manifest goes on to be kept if no request has come to its end.        *)
LEMMA StaysKept ==
  ASSUME UNCHANGED <<asBefore, manifest>>, Kept(manifest),
         \A q \in ConfigRequest : at'[q] = "ok" /\ service'[q] = "apiserver" =>
           /\ at[q] = "ok" /\ service[q] = "apiserver" /\ setting'[q] = setting[q]
  PROVE  Kept(manifest)'
BY DEF Kept

LEMMA KeptStep ==
  ASSUME ConfigInv, ConfigNext, UNCHANGED machine
  PROVE  KeptSomewhere'
<1> USE DEF ConfigInv
<1> SUFFICES ASSUME mixed' = {}, torn' = {}, reboots' = 0
             PROVE  /\ (\A q \in ConfigRequest : at'[q] # "fill manifest") => Kept(manifest)'
                    /\ \A q \in ConfigRequest : at'[q] = "empty manifest" => read'[q] = manifest'
                    /\ \A q \in ConfigRequest : at'[q] = "fill manifest" => Kept(read[q])'
  BY DEF KeptSomewhere
<1>1. reboots = 0 /\ torn = {}
  <2>1. torn \subseteq torn'
    BY ConfigSteps DEF ConfigCommand, Configure, ConfigError, WriteError,
       GetSpecifyNetCard, EmptyFile, FillFile, DaemonReload, StartService, ReadBytes,
       EmptyManifest, FillManifest, Chmod, UnitStops
  <2> QED BY <2>1 DEF machine
<1>2. ASSUME NEW u \in Unit, UnitStops(u)
      PROVE  KeptSomewhere'
  BY <1>2, <1>1 DEF UnitStops, KeptSomewhere, Kept, requested
<1>3. ASSUME NEW r \in ConfigRequest, Configure(r)
      PROVE  KeptSomewhere'
  <2>1. /\ mixed = {} /\ Configuring = {}
        /\ at'[r] \notin {"ok", "empty manifest", "fill manifest"}
        /\ \A q \in ConfigRequest \ {r} : /\ at'[q] = at[q] /\ service'[q] = service[q]
                                         /\ setting'[q] = setting[q]
    <3>1. mixed' = mixed \cup (IF Configuring = {} THEN {} ELSE Configuring \cup {r})
      BY <1>3, Begins
    <3>2. at'[r] \notin {"ok", "empty manifest", "fill manifest"}
      BY <1>3, Begins
    <3>3. Configuring = {}
      BY <3>1
    <3> QED BY <1>3, <3>1, <3>2, <3>3, Begins
  <2>2. \A q \in ConfigRequest : at[q] \notin {"empty manifest", "fill manifest"}
    BY <2>1 DEF Configuring, Ended
  <2>3. Kept(manifest)'
    BY <1>1, <1>3, <2>1, <2>2, StaysKept DEF KeptSomewhere, Configure
  <2>4. \A q \in ConfigRequest : at'[q] \notin {"empty manifest", "fill manifest"}
    BY <2>1, <2>2
  <2> QED BY <2>3, <2>4 DEF KeptSomewhere
<1>4. ASSUME NEW r \in ConfigRequest, ConfigCommand(r)
      PROVE  KeptSomewhere'
  <2>1. /\ mixed = {} /\ r \in Configuring
        /\ asBefore' = asBefore /\ service' = service /\ setting' = setting
        /\ \A q \in ConfigRequest \ {r} : at'[q] = at[q] /\ read'[q] = read[q]
    BY <1>4, CommandMoves DEF requested
  <2>2. \A q \in ConfigRequest \ {r} : q \notin Configuring
    BY <2>1 DEF AloneOrMixed
  <2>3. \A q \in ConfigRequest \ {r} :
          /\ at[q] \notin {"empty manifest", "fill manifest"}
          /\ at'[q] \notin {"empty manifest", "fill manifest"}
    BY <2>1, <2>2 DEF Configuring, Ended
  <2>9. CASE WriteError(r)
    <3>1. at[r] = "fill file" /\ at'[r] = "failed" /\ manifest' = manifest
      BY <1>1, <2>9 DEF WriteError, MovesTo, ConfigTypeOK
    <3>2. Kept(manifest)
      BY <1>1, <2>1, <2>3, <3>1 DEF KeptSomewhere
    <3>3. Kept(manifest)'
      BY <2>1, <3>1, <3>2, StaysKept
    <3> QED BY <2>3, <3>1, <3>3 DEF KeptSomewhere
  <2>4. CASE \/ ConfigError(r) \/ GetSpecifyNetCard(r) \/ EmptyFile(r) \/ FillFile(r)
             \/ DaemonReload(r) \/ StartService(r)
    <3>1. /\ at'[r] \notin {"empty manifest", "fill manifest"}
          /\ at[r] # "fill manifest"
          /\ at'[r] = "ok" => at[r] = "start"
          /\ manifest' = manifest
      <4> USE DEF MovesTo, Took, ConfigTypeOK
      <4>1. CASE ConfigError(r) BY <4>1 DEF ConfigError
      <4>2. CASE GetSpecifyNetCard(r) BY <4>2 DEF GetSpecifyNetCard
      <4>3. CASE EmptyFile(r) BY <4>3 DEF EmptyFile
      <4>4. CASE FillFile(r) BY <4>4 DEF FillFile
      <4>5. CASE DaemonReload(r) BY <4>5 DEF DaemonReload
      <4>6. CASE StartService(r) BY <4>6 DEF StartService
      <4> QED BY <2>4, <4>1, <4>2, <4>3, <4>4, <4>5, <4>6
    <3>2. at[r] = "start" => service[r] # "apiserver"
      BY DEF OwnCommands, UnitPlaces, Unit
    <3>3. Kept(manifest)
      BY <1>1, <2>1, <2>3, <3>1 DEF KeptSomewhere
    <3>4. Kept(manifest)'
      BY <2>1, <3>1, <3>2, <3>3, StaysKept
    <3> QED BY <2>3, <3>1, <3>4 DEF KeptSomewhere
  <2>5. CASE ReadBytes(r)
    <3>1. /\ at'[r] \in {"panicked", "empty manifest"} /\ at[r] = "read"
          /\ read'[r] = manifest /\ manifest' = manifest
      <4>1. \E l \in {"panicked", "empty manifest"} : at' = [at EXCEPT ![r] = l]
        BY <2>5 DEF ReadBytes, MovesTo
      <4> QED BY <2>5, <4>1 DEF ReadBytes, ConfigTypeOK
    <3>2. Kept(manifest)
      BY <1>1, <2>1, <2>3, <3>1 DEF KeptSomewhere
    <3>3. Kept(manifest)'
      BY <2>1, <3>1, <3>2, StaysKept
    <3> QED BY <2>3, <3>1, <3>3 DEF KeptSomewhere
  <2>6. CASE EmptyManifest(r)
    <3>1. at[r] = "empty manifest" /\ at'[r] = "fill manifest" /\ read' = read
      BY <2>6 DEF EmptyManifest, MovesTo, ConfigTypeOK
    <3>2. Kept(read[r])
      BY <1>1, <2>1, <2>3, <3>1 DEF KeptSomewhere
    <3>3. Kept(read[r])'
      BY <2>1, <3>1, <3>2 DEF Kept
    <3> QED BY <2>3, <3>1, <3>3 DEF KeptSomewhere
  <2>7. CASE FillManifest(r)
    <3>1. /\ at[r] = "fill manifest" /\ at'[r] \in {"chmod", "failed"}
          /\ manifest' = updateCommandInContainer(read[r], setting[r])
      BY <2>7 DEF FillManifest, Took, MovesTo, ConfigTypeOK
    <3>2. Kept(read[r])
      BY <1>1, <2>1, <3>1 DEF KeptSomewhere
    <3>3. setting[r] \in Setting /\ read[r] \in Yamls
      BY <3>1 DEF OwnCommands, ConfigTypeOK
    <3>4. MadeOf(read[r], setting[r], manifest')
      BY <3>1, <3>3, Updated
    <3>5. asBefore.flags \in Seq(Setting) /\ asBefore.kind # "blank"
      BY ConfigAssumption DEF ConfigTypeOK
    <3>6. Kept(manifest)'
      <4>1. manifest'.kind = asBefore.kind /\ IsPrefix(asBefore.flags, manifest'.flags)
        BY <3>2, <3>4, <3>5 DEF Kept, MadeOf
      <4>2. ASSUME NEW q \in ConfigRequest, at'[q] = "ok", service[q] = "apiserver",
                   manifest'.kind = "pod"
            PROVE  Contains(manifest'.flags, setting[q])
        <5>1. at[q] = "ok" /\ read[r].kind = "pod"
          BY <2>1, <3>1, <3>4, <4>2 DEF MadeOf
        <5> QED BY <3>2, <3>4, <4>2, <5>1 DEF Kept, MadeOf
      <4> QED BY <2>1, <4>1, <4>2 DEF Kept
    <3> QED BY <2>3, <3>1, <3>6 DEF KeptSomewhere
  <2>8. CASE Chmod(r)
    <3>1. at[r] = "chmod" /\ at'[r] \in {"ok", "failed"} /\ manifest' = manifest
      BY <2>8 DEF Chmod, Took, MovesTo, ConfigTypeOK
    <3>2. Kept(manifest)
      BY <1>1, <2>1, <2>3, <3>1 DEF KeptSomewhere
    <3>3. manifest.kind = "pod" => Contains(manifest.flags, setting[r])
      <4>1. manifest = updateCommandInContainer(read[r], setting[r])
        BY <2>1, <3>1 DEF OwnManifest
      <4>2. setting[r] \in Setting /\ read[r] \in Yamls
        BY <3>1 DEF OwnCommands, ConfigTypeOK
      <4> QED BY <4>1, <4>2, Updated DEF MadeOf
    <3>4. Kept(manifest)'
      BY <2>1, <3>1, <3>2, <3>3 DEF Kept
    <3> QED BY <2>3, <3>1, <3>4 DEF KeptSomewhere
  <2> QED BY <1>4, <2>4, <2>5, <2>6, <2>7, <2>8, <2>9 DEF ConfigCommand
<1>5. KeptSomewhere'
  BY <1>2, <1>3, <1>4, ConfigSteps
<1> QED BY <1>5 DEF KeptSomewhere

(* After a reboot nobody is under way.                                     *)
LEMMA ConfigRebootInv ==
  ASSUME ConfigInv, ConfigReboot, MachineReboots
  PROVE  ConfigInv'
<1> USE DEF ConfigInv
<1>1. /\ \A r \in ConfigRequest : at'[r] \in {at[r], "failed"} /\ at'[r] \in Ended \cup {"idle"}
      /\ Configuring' = {}
  BY DEF ConfigReboot, Configuring, Ended, ConfigTypeOK
<1>2. reboots' = reboots + 1 /\ root' = root
  BY DEF MachineReboots
<1>3. ConfigTypeOK'
  <2>1. at' \in [ConfigRequest -> UnitPlaces \cup ManifestPlaces \cup Ended \cup {"idle"}]
    BY <1>1 DEF ConfigReboot
  <2> QED BY <1>2, <2>1 DEF ConfigReboot, ConfigTypeOK, requested
<1>4. OwnCommands'
  <2>1. UNCHANGED <<service, setting, card>>
    BY DEF ConfigReboot, requested
  <2>2. \A r \in ConfigRequest : at'[r] \notin UnitPlaces \cup ManifestPlaces
    BY <1>1 DEF UnitPlaces, ManifestPlaces, Ended
  <2>3. \A r \in ConfigRequest : at'[r] # "idle" <=> at[r] # "idle"
    BY DEF ConfigReboot, Configuring, Ended
  <2> QED BY <2>1, <2>2, <2>3 DEF OwnCommands, UnitPlaces
<1>5. NeverEmptied'
  <2>1. Emptied \in Values
    BY DEF Emptied, Config, Values
  <2>2. None # Emptied
    BY <2>1, ConfigAssumption DEF Values
  <2> QED BY <2>2 DEF ConfigReboot, NeverEmptied
<1>6. AloneOrMixed' /\ OwnUnit' /\ OwnManifest'
  BY <1>1 DEF AloneOrMixed, OwnUnit, OwnManifest
<1>7. KeptSomewhere'
  <2>1. reboots' # 0
    BY <1>2 DEF ConfigTypeOK
  <2> QED BY <2>1 DEF KeptSomewhere
<1> QED BY <1>3, <1>4, <1>5, <1>6, <1>7

LEMMA ConfigHolds == Spec => []ConfigInv
<1>1. Init => ConfigInv
  BY ConfigInitInv DEF Init
<1>2. ConfigInv /\ [Next]_vars => ConfigInv'
  <2> SUFFICES ASSUME ConfigInv, [Next]_vars PROVE ConfigInv'
    OBVIOUS
  <2>1. CASE ConfigNext /\ UNCHANGED machine
    BY <2>1, ConfigTypeStep, CommandsStep, AloneStep, OwnUnitStep, EmptiedStep,
       OwnManifestStep, KeptStep DEF ConfigInv
  <2>2. CASE ConfigReboot /\ MachineReboots
    BY <2>2, ConfigRebootInv
  <2>3. CASE UNCHANGED <<configVars, machine>>
    BY <2>3
    DEF configVars, machine, requested, ConfigInv, ConfigTypeOK, OwnCommands, AloneOrMixed,
        OwnUnit, NeverEmptied, OwnManifest, KeptSomewhere, Kept, Configuring
  <2> QED BY <2>1, <2>2, <2>3, PartsOf
<1> QED BY <1>1, <1>2, PTL DEF Spec

(* The API server's manifest (utils/apiserver.go) loses nothing, and has   *)
(* what successful requests asked for, unless two of them overlapped, the  *)
(* machine went down, or a write (WriteFile) failed after it had emptied   *)
(* the file.                                                               *)
THEOREM ManifestIsKept == Spec => []ManifestKept
<1>1. ASSUME ConfigInv PROVE ManifestKept
  <2>1. ASSUME mixed = {}, torn = {}, reboots = 0, Configuring = {}
        PROVE  Kept(manifest)
    <3>1. \A r \in ConfigRequest : at[r] # "fill manifest"
      BY <2>1 DEF Configuring, Ended
    <3> QED BY <1>1, <2>1, <3>1 DEF ConfigInv, KeptSomewhere
  <2>2. asBefore.kind \notin {"blank", "braces"}
    BY <1>1, ConfigAssumption DEF ConfigInv, ConfigTypeOK
  <2>3. reboots \in Nat
    BY <1>1 DEF ConfigInv, ConfigTypeOK
  <2> QED BY <2>1, <2>2, <2>3 DEF ManifestKept, Kept
<1> QED BY <1>1, ConfigHolds, PTL

(* The command whose end is a request's success.                           *)
LEMMA Succeeding ==
  ASSUME ConfigInv, [Next]_vars, NEW r \in ConfigRequest, Succeeds(r)
  PROVE  /\ service[r] \in Unit => StartService(r)
         /\ service[r] = "apiserver" => Chmod(r)
<1> USE DEF ConfigInv
<1>1. at'[r] = "ok" /\ at[r] # "ok"
  BY DEF Succeeds
<1>2. ConfigNext
  <2>1. ~UNCHANGED configVars
    BY <1>1 DEF configVars
  <2>2. ~ConfigReboot
    BY <1>1 DEF ConfigReboot
  <2> QED BY <2>1, <2>2, PartsOf
<1>3. ASSUME NEW q \in ConfigRequest, Configure(q) PROVE FALSE
  BY <1>1, <1>3, Begins
<1>4. ASSUME NEW u \in Unit, UnitStops(u) PROVE FALSE
  BY <1>1, <1>4 DEF UnitStops
<1>5. ASSUME NEW q \in ConfigRequest, ConfigCommand(q) PROVE q = r
  BY <1>1, <1>5, CommandMoves
<1>6. ConfigCommand(r)
  BY <1>2, <1>3, <1>4, <1>5, ConfigSteps
<1>7. StartService(r) \/ Chmod(r)
  BY <1>1, <1>6
  DEF ConfigCommand, ConfigError, WriteError, GetSpecifyNetCard, EmptyFile, FillFile, DaemonReload,
      ReadBytes, EmptyManifest, FillManifest, MovesTo, Took, ConfigTypeOK
<1>8. /\ StartService(r) => service[r] \in Unit
      /\ Chmod(r) => service[r] = "apiserver"
  BY DEF StartService, Chmod, OwnCommands, UnitPlaces, ManifestPlaces
<1> QED BY <1>7, <1>8 DEF Unit

(* A successful Configure (service/haproxy.go, keepalived.go) that was     *)
(* alone has its own file in place and its unit running, with it or, since *)
(* nothing restarts it, as the unit ran before.                            *)
THEOREM InEffect == Spec => ConfigurationInEffect
<1>1. ASSUME ConfigInv, ConfigInv', [Next]_vars
      PROVE  [/\ (\E u \in Unit : unitRuns'[u] = Emptied) => mixed' # {}
              /\ \A r \in ConfigRequest : Succeeds(r) /\ service[r] \in Unit =>
                   LET u   == service[r]
                       own == Config(setting[r], card[r])
                   IN  /\ root /\ unitFile[u] = own
                       /\ unitRuns'[u] \in {own, found[r]} \ {None}
                       /\ ~card[r] => u = "keepalived"
             ]_configVars
  <2>1. (\E u \in Unit : unitRuns'[u] = Emptied) => mixed' # {}
    BY <1>1 DEF ConfigInv, NeverEmptied
  <2>2. ASSUME NEW r \in ConfigRequest, Succeeds(r), service[r] \in Unit
        PROVE  /\ root /\ unitFile[service[r]] = Config(setting[r], card[r])
               /\ unitRuns'[service[r]] \in {Config(setting[r], card[r]), found[r]} \ {None}
               /\ ~card[r] => service[r] = "keepalived"
    <3>1. StartService(r)
      BY <1>1, <2>2, Succeeding
    <3>2. at[r] = "start" /\ r \in Configuring \ mixed
      BY <2>2, <3>1 DEF StartService, Succeeds, Configuring, Ended
    <3>3. /\ root /\ unitFile[service[r]] = Config(setting[r], card[r])
          /\ unitRuns[service[r]] \in {None, found[r]}
          /\ ~card[r] => service[r] = "keepalived"
          /\ setting[r] \in Setting /\ card[r] \in BOOLEAN
      <4>1. OwnCommands /\ OwnUnit /\ card[r] \in BOOLEAN
        BY <1>1 DEF ConfigInv, ConfigTypeOK
      <4> QED BY <2>2, <3>2, <4>1 DEF OwnCommands, OwnUnit
    <3>4. Config(setting[r], card[r]) # None
      <4>1. Config(setting[r], card[r]) \in Values
        BY <3>3 DEF Config, Values
      <4> QED BY <4>1, ConfigAssumption DEF Values
    <3>5. unitRuns'[service[r]] = IF unitRuns[service[r]] = None
                                    THEN unitFile[service[r]] ELSE unitRuns[service[r]]
      BY <1>1, <2>2, <3>1 DEF StartService, ConfigInv, ConfigTypeOK
    <3> QED BY <3>3, <3>4, <3>5
  <2> QED BY <2>1, <2>2
<1> QED BY <1>1, ConfigHolds, PTL DEF Spec, ConfigurationInEffect

(* A successful ConfigureManifest (utils/apiserver.go) that was alone has  *)
(* put its setting last among the API server's flags, or found it there.   *)
THEOREM TakesEffect == Spec => OidcTakesEffect
<1>1. ASSUME ConfigInv, [Next]_vars
      PROVE  [\A r \in ConfigRequest : Succeeds(r) /\ service[r] = "apiserver" =>
                \/ read[r].kind = "pod" /\ manifest.kind = "pod"
                   /\ \/ Last(manifest.flags) = setting[r]
                      \/ Contains(read[r].flags, setting[r])
                \/ read[r].kind # "pod" /\ Len(manifest.flags) = 0
             ]_configVars
  <2> SUFFICES ASSUME NEW r \in ConfigRequest, Succeeds(r), service[r] = "apiserver"
               PROVE  \/ /\ read[r].kind = "pod" /\ manifest.kind = "pod"
                         /\ \/ Last(manifest.flags) = setting[r]
                            \/ Contains(read[r].flags, setting[r])
                      \/ read[r].kind # "pod" /\ Len(manifest.flags) = 0
    OBVIOUS
  <2>1. at[r] = "chmod" /\ r \in Configuring \ mixed
    <3>1. Chmod(r)
      BY <1>1, Succeeding
    <3> QED BY <3>1 DEF Chmod, Succeeds, Configuring, Ended
  <2>2. manifest = updateCommandInContainer(read[r], setting[r])
    BY <1>1, <2>1 DEF ConfigInv, OwnManifest
  <2>3. setting[r] \in Setting /\ read[r] \in Yamls
    BY <1>1, <2>1 DEF ConfigInv, OwnCommands, ConfigTypeOK
  <2>4. MadeOf(read[r], setting[r], manifest)
    BY <2>2, <2>3, Updated
  <2>5. CASE manifest.kind = "pod"
    BY <2>4, <2>5 DEF MadeOf
  <2>6. CASE manifest.kind # "pod"
    <3>1. manifest.flags = <<>>
      BY <2>4, <2>6 DEF MadeOf, Yamls
    <3>2. read[r].kind # "pod"
      <4>1. read[r].kind # "blank" => manifest.kind = read[r].kind
        BY <2>4 DEF MadeOf
      <4> QED BY <2>6, <4>1
    <3> QED BY <3>1, <3>2
  <2> QED BY <2>5, <2>6
<1> QED BY <1>1, ConfigHolds, PTL DEF Spec, OidcTakesEffect

----------------------------------------------------------------------------
(* Nameservers.                                                            *)

Servers == {Nameserver(rec.ip) : rec \in Record} \cup Range(atFirst.resolv)

FilePlaces == {"idle", "read", "sed", "rename", "append", "echo", "tmp", "tmp writes", "cp",
               "cp writes", "tee", "tee writes", "append dns", "done"}

ResolvTypeOK ==
  /\ kind \in [FileRequest -> Method \cup {"none"}]
  /\ record \in [FileRequest -> Record \cup {None}]
  /\ pc \in [FileRequest -> FilePlaces]
  /\ answer \in [FileRequest -> {"none", "ok", "failed"}]
  /\ resolv \in Seq(Servers)
  /\ overlapped \subseteq FileRequest
  /\ atFirst \in Start

(* A request about a nameserver goes its own way.                          *)
OwnWay ==
  \A r \in FileRequest :
    /\ pc[r] = "idle" <=> kind[r] = "none"
    /\ pc[r] = "idle" => answer[r] = "none"
    /\ pc[r] # "idle" => record[r] \in Record
    /\ kind[r] = "dns" => pc[r] \in {"read", "append dns", "done"}
    /\ pc[r] = "append dns" => kind[r] = "dns"

AloneOrOverlapped == \A r, q \in Active : r # q => r \in overlapped

(* Two requests about one nameserver have overlapped.                      *)
Asking(ip) == {q \in FileRequest : kind[q] = "dns" /\ record[q].ip = ip}
Twice(ip)  == \E r, q \in Asking(ip) \cap overlapped : r # q

(* One that is about to append it has not found it, and it is not there    *)
(* now, unless another one has appended it meanwhile.                      *)
NotThereYet ==
  \A r \in FileRequest : pc[r] = "append dns" =>
    \/ \A i \in DOMAIN resolv : resolv[i] # Nameserver(record[r].ip)
    \/ Twice(record[r].ip)

OkMeansThere ==
  \A r \in FileRequest : kind[r] = "dns" /\ answer[r] = "ok" => Mentioned(record[r].ip)

ListedOnce ==
  \A rec \in Record :
    \/ ServerLines(resolv, rec.ip) <= 1
    \/ ServerLines(resolv, rec.ip) = ServerLines(atFirst.resolv, rec.ip)
    \/ Twice(rec.ip)

ResolvInv == /\ ResolvTypeOK /\ OwnWay /\ AloneOrOverlapped /\ NotThereYet /\ OkMeansThere
             /\ ListedOnce

(* How often an address is listed when a line is added.                    *)
LEMMA Listings ==
  ASSUME NEW S, NEW s \in Seq(S), NEW x \in S, NEW ip
  PROVE  /\ ServerLines(s, ip) \in Nat
         /\ (\A i \in DOMAIN s : s[i] # Nameserver(ip)) => ServerLines(s, ip) = 0
         /\ x = Nameserver(ip) => ServerLines(Append(s, x), ip) = ServerLines(s, ip) + 1
         /\ x # Nameserver(ip) => ServerLines(Append(s, x), ip) = ServerLines(s, ip)
<1> DEFINE at1 == {i \in DOMAIN s : s[i] = Nameserver(ip)}
           at2 == {i \in DOMAIN Append(s, x) : Append(s, x)[i] = Nameserver(ip)}
<1>1. /\ DOMAIN s = 1..Len(s) /\ Len(s) \in Nat
      /\ DOMAIN Append(s, x) = 1..(Len(s) + 1)
      /\ \A i \in 1..Len(s) : Append(s, x)[i] = s[i]
      /\ Append(s, x)[Len(s) + 1] = x
  OBVIOUS
<1>2. IsFiniteSet(at1) /\ Cardinality(at1) \in Nat
  <2>1. IsFiniteSet(1..Len(s))
    BY <1>1, 1 \in Int, Len(s) \in Int, FS_Interval
  <2>2. IsFiniteSet(at1)
    BY <1>1, <2>1, FS_Subset
  <2> QED BY <2>2, FS_CardinalityType
<1>3. at1 = {} => Cardinality(at1) = 0
  BY FS_EmptySet
<1>4. Len(s) + 1 \notin at1
  BY <1>1
<1>5. x = Nameserver(ip) => at2 = at1 \cup {Len(s) + 1}
  BY <1>1
<1>6. x # Nameserver(ip) => at2 = at1
  BY <1>1
<1>7. Cardinality(at1 \cup {Len(s) + 1}) = Cardinality(at1) + 1
  BY <1>2, <1>4, FS_AddElement
<1>8. (\A i \in DOMAIN s : s[i] # Nameserver(ip)) => at1 = {}
  OBVIOUS
<1>9. ServerLines(s, ip) = Cardinality(at1) /\ ServerLines(Append(s, x), ip) = Cardinality(at2)
  BY DEF ServerLines
<1> HIDE DEF at1, at2
<1> QED BY <1>2, <1>3, <1>5, <1>6, <1>7, <1>8, <1>9

(* A line that is not there is not there either after another is added.    *)
LEMMA StillOther ==
  ASSUME NEW S, NEW s \in Seq(S), NEW x \in S, NEW y, x # y,
         \A i \in DOMAIN s : s[i] # y
  PROVE  \A i \in DOMAIN Append(s, x) : Append(s, x)[i] # y
OBVIOUS

LEMMA ResolvInitInv == FilesInit => ResolvInv
<1> SUFFICES ASSUME FilesInit PROVE ResolvInv
  OBVIOUS
<1>1. resolv \in Seq(Servers)
  <2>1. resolv \in Seq(Range(atFirst.resolv)) /\ Range(atFirst.resolv) \subseteq Servers
    BY HostFilesAssumption DEF FilesInit, Servers
  <2> QED BY <2>1
<1>2. ResolvTypeOK
  BY <1>1 DEF FilesInit, ResolvTypeOK, FilePlaces
<1>3. OwnWay /\ AloneOrOverlapped /\ NotThereYet /\ OkMeansThere
  BY DEF FilesInit, OwnWay, AloneOrOverlapped, NotThereYet, OkMeansThere, Active
<1>4. ListedOnce
  BY DEF FilesInit, ListedOnce
<1> QED BY <1>2, <1>3, <1>4 DEF ResolvInv

(* A step that is not about nameservers: of a request that goes another    *)
(* way, or fails.                                                          *)
Elsewhere(r) ==
  /\ pc[r] \notin {"idle", "done"}
  /\ \E l \in FilePlaces \ {"idle", "append dns"} : pc' = [pc EXCEPT ![r] = l]
  /\ \/ answer' = answer \/ answer' = [answer EXCEPT ![r] = "failed"]
     \/ kind[r] # "dns" /\ answer' = [answer EXCEPT ![r] = "ok"]
  /\ kind[r] = "dns" => pc'[r] = "done"
  /\ UNCHANGED <<atFirst, kind, record, resolv, overlapped>>

LEMMA FileSteps ==
  ASSUME ResolvTypeOK, OwnWay, FilesNext
  PROVE  \/ \E r \in FileRequest :
              Begin(r) \/ ReadResolv(r) \/ AppendResolv(r) \/ Elsewhere(r)
         \/ OtherMachine
<1> SUFFICES ASSUME NEW r \in FileRequest,
                    \/ ReadHosts(r) \/ CommandError(r) \/ ConnectionLost(r)
                    \/ AddHosts(r) \/ AddMultiHosts(r) \/ UpdateHostsFile(r)
             PROVE  Elsewhere(r)
  BY DEF FilesNext, UpdateResolvFile
<1>1. answer[r] \in {"none", "ok", "failed"} /\ pc[r] \in FilePlaces
  BY DEF ResolvTypeOK
<1>2. ASSUME NEW o \in {"ok", "failed"}, Ends(r, o), kind[r] # "dns" \/ o = "failed",
             pc[r] \notin {"idle", "done"},
             UNCHANGED <<atFirst, kind, record, resolv, overlapped>>
      PROVE  Elsewhere(r)
  <2>1. pc' = [pc EXCEPT ![r] = "done"] /\ pc'[r] = "done"
    BY <1>2 DEF Ends, Goto, ResolvTypeOK
  <2>2. \/ answer' = answer \/ answer' = [answer EXCEPT ![r] = o]
    <3>1. CASE answer[r] = "none"
      BY <1>2, <3>1 DEF Ends, ResolvTypeOK
    <3>2. CASE answer[r] # "none"
      BY <1>2, <3>2 DEF Ends, ResolvTypeOK
    <3> QED BY <3>1, <3>2
  <2> QED BY <1>2, <2>1, <2>2 DEF Elsewhere, FilePlaces
<1>3. ASSUME NEW l \in FilePlaces \ {"idle", "append dns"}, Goto(r, l), answer' = answer,
             kind[r] # "dns", pc[r] \notin {"idle", "done"},
             UNCHANGED <<atFirst, kind, record, resolv, overlapped>>
      PROVE  Elsewhere(r)
  BY <1>3 DEF Elsewhere, Goto
<1>4. ASSUME pc[r] \notin {"read", "append dns", "done"} PROVE kind[r] # "dns"
  BY <1>4 DEF OwnWay
<1>5. CASE ReadHosts(r)
  <2>1. \E l \in {"echo", "sed", "tmp", "tee"} : Goto(r, l)
    BY <1>5 DEF ReadHosts
  <2> QED BY <1>3, <1>5, <2>1 DEF ReadHosts, asked, FilePlaces
<1>6. CASE CommandError(r)
  BY <1>2, <1>6 DEF CommandError, asked
<1>7. CASE ConnectionLost(r)
  <2>1. pc' = [pc EXCEPT ![r] = pc[r]]
    BY <1>7 DEF ConnectionLost, ResolvTypeOK
  <2>2. pc[r] \in FilePlaces \ {"idle", "append dns"} /\ kind[r] # "dns"
    BY <1>1, <1>4, <1>7 DEF ConnectionLost
  <2> QED BY <1>7, <2>1, <2>2 DEF ConnectionLost, Elsewhere, asked
<1>8. CASE AddHosts(r)
  <2>1. CASE SedReads(r)
    BY <1>3, <1>4, <2>1 DEF SedReads, asked, FilePlaces
  <2>2. CASE SedRenames(r)
    BY <1>3, <1>4, <2>2 DEF SedRenames, asked, FilePlaces
  <2>3. CASE AppendEntry(r)
    BY <1>2, <1>4, <2>3 DEF AppendEntry, asked
  <2>4. CASE EchoEntry(r)
    BY <1>2, <1>4, <2>4 DEF EchoEntry, asked
  <2> QED BY <1>8, <2>1, <2>2, <2>3, <2>4 DEF AddHosts
<1>9. CASE AddMultiHosts(r)
  <2>1. CASE TruncateTmp(r)
    BY <1>3, <1>4, <2>1 DEF TruncateTmp, asked, FilePlaces
  <2>2. CASE WriteTmp(r)
    BY <1>3, <1>4, <2>2 DEF WriteTmp, asked, FilePlaces
  <2>3. CASE CpTruncates(r)
    BY <1>2, <1>3, <1>4, <2>3 DEF CpTruncates, asked, FilePlaces
  <2>4. CASE CpWrites(r)
    BY <1>2, <1>4, <2>4 DEF CpWrites, asked
  <2> QED BY <1>9, <2>1, <2>2, <2>3, <2>4 DEF AddMultiHosts
<1>10. CASE UpdateHostsFile(r)
  <2>1. CASE TeeTruncates(r)
    BY <1>3, <1>4, <2>1 DEF TeeTruncates, asked, FilePlaces
  <2>2. CASE TeeWrites(r)
    BY <1>2, <1>4, <2>2 DEF TeeWrites, asked
  <2> QED BY <1>10, <2>1, <2>2 DEF UpdateHostsFile
<1> QED BY <1>5, <1>6, <1>7, <1>8, <1>9, <1>10

(* A request that begins, which had neither method nor record, is with     *)
(* those under way among the overlapping ones.                             *)
LEMMA Beginning ==
  ASSUME ResolvTypeOK, OwnWay, NEW r \in FileRequest, Begin(r)
  PROVE  /\ ResolvTypeOK' /\ OwnWay' /\ r \notin Active /\ kind[r] = "none"
         /\ \A q \in FileRequest \ {r} :
              pc'[q] = pc[q] /\ kind'[q] = kind[q] /\ record'[q] = record[q]
         /\ pc'[r] = "read"
         /\ overlapped \subseteq overlapped'
         /\ Active = {} \/ Active \cup {r} \subseteq overlapped'
         /\ UNCHANGED <<atFirst, resolv, answer>>
<1>1. pc[r] = "idle" /\ pc' = [pc EXCEPT ![r] = "read"]
  BY DEF Begin, Goto
<1>2. PICK k \in Method : kind' = [kind EXCEPT ![r] = k]
  BY DEF Begin
<1>3. PICK rec \in Record : record' = [record EXCEPT ![r] = rec]
  BY DEF Begin
<1>4. /\ overlapped' = overlapped \cup (IF Active = {} THEN {} ELSE Active \cup {r})
      /\ UNCHANGED <<atFirst, resolv, answer>>
  BY DEF Begin
<1>5. kind[r] = "none" /\ r \notin Active
  BY <1>1 DEF OwnWay, Active
<1>6. \A q \in FileRequest \ {r} :
        pc'[q] = pc[q] /\ kind'[q] = kind[q] /\ record'[q] = record[q]
  BY <1>1, <1>2, <1>3 DEF ResolvTypeOK
<1>7. pc'[r] = "read" /\ kind'[r] = k /\ record'[r] = rec
  BY <1>1, <1>2, <1>3 DEF ResolvTypeOK
<1>8. overlapped' \subseteq FileRequest /\ overlapped \subseteq overlapped'
  BY <1>4 DEF ResolvTypeOK, Active
<1>9. Active = {} \/ Active \cup {r} \subseteq overlapped'
  BY <1>4
<1>10. ResolvTypeOK'
  <2>1. pc' \in [FileRequest -> FilePlaces]
    BY <1>1 DEF ResolvTypeOK, FilePlaces
  <2>2. kind' \in [FileRequest -> Method \cup {"none"}]
    BY <1>2 DEF ResolvTypeOK
  <2>3. record' \in [FileRequest -> Record \cup {None}]
    BY <1>3 DEF ResolvTypeOK
  <2> QED BY <1>4, <1>8, <2>1, <2>2, <2>3 DEF ResolvTypeOK, Servers
<1>11. OwnWay'
  BY <1>4, <1>6, <1>7 DEF OwnWay, Method
<1> QED BY <1>4, <1>5, <1>6, <1>7, <1>8, <1>9, <1>10, <1>11

(* Requests keep their method and record, and whoever overlapped, has.     *)
LEMMA AskedStays ==
  ASSUME ResolvTypeOK, OwnWay, FilesNext
  PROVE  /\ overlapped \subseteq overlapped'
         /\ \A q \in FileRequest : kind[q] # "none" => /\ kind'[q] = kind[q]
                                                      /\ record'[q] = record[q]
<1>1. ASSUME NEW r \in FileRequest, Begin(r)
      PROVE  /\ overlapped \subseteq overlapped'
             /\ \A q \in FileRequest : kind[q] # "none" => /\ kind'[q] = kind[q]
                                                          /\ record'[q] = record[q]
  BY <1>1, Beginning
<1>2. ASSUME NEW r \in FileRequest, ReadResolv(r) \/ AppendResolv(r) \/ Elsewhere(r)
      PROVE  overlapped' = overlapped /\ kind' = kind /\ record' = record
  BY <1>2 DEF ReadResolv, AppendResolv, Elsewhere, asked
<1>3. OtherMachine => overlapped \subseteq overlapped' /\ kind' = kind /\ record' = record
  BY DEF OtherMachine, asked
<1> QED BY <1>1, <1>2, <1>3, FileSteps

LEMMA TwiceStays ==
  ASSUME ResolvTypeOK, OwnWay, FilesNext, NEW ip, Twice(ip)
  PROVE  Twice(ip)'
<1>1. PICK r, q \in Asking(ip) \cap overlapped : r # q
  BY DEF Twice
<1>2. {r, q} \subseteq Asking(ip)' \cap overlapped'
  BY <1>1, AskedStays DEF Asking
<1> QED BY <1>1, <1>2 DEF Twice

(* What the other steps leave alone.                                       *)
LEMMA OtherwiseTyped ==
  ASSUME ResolvTypeOK, OwnWay, NEW r \in FileRequest,
         ReadResolv(r) \/ AppendResolv(r) \/ Elsewhere(r)
  PROVE  /\ ResolvTypeOK' /\ OwnWay' /\ r \in Active
         /\ \A q \in FileRequest \ {r} : pc'[q] = pc[q] /\ answer'[q] = answer[q]
         /\ pc'[r] # "idle" /\ (pc'[r] = "append dns" => ReadResolv(r))
         /\ UNCHANGED <<atFirst, kind, record, overlapped>>
<1>1. pc[r] \notin {"idle", "done"} /\ UNCHANGED <<atFirst, kind, record, overlapped>>
  BY DEF ReadResolv, AppendResolv, Elsewhere, asked
<1>2. PICK l \in FilePlaces \ {"idle"} : pc' = [pc EXCEPT ![r] = l]
  <2>1. CASE ReadResolv(r)
    BY <2>1 DEF ReadResolv, Ends, Goto, FilePlaces
  <2>2. CASE AppendResolv(r)
    BY <2>2 DEF AppendResolv, Ends, Goto, FilePlaces
  <2>3. CASE Elsewhere(r)
    BY <2>3 DEF Elsewhere
  <2> QED BY <2>1, <2>2, <2>3
<1>3. PICK a \in {"none", "ok", "failed"} : answer' = [answer EXCEPT ![r] = a]
  <2>1. answer[r] \in {"none", "ok", "failed"} /\ answer = [answer EXCEPT ![r] = answer[r]]
    BY DEF ResolvTypeOK
  <2>2. CASE ReadResolv(r)
    BY <2>1, <2>2 DEF ReadResolv, Ends
  <2>3. CASE AppendResolv(r)
    BY <2>1, <2>3 DEF AppendResolv, Ends
  <2>4. CASE Elsewhere(r)
    BY <2>1, <2>4 DEF Elsewhere
  <2> QED BY <2>2, <2>3, <2>4
<1>4. kind[r] = "dns" => l \in {"append dns", "done"}
  <2>1. l = pc'[r]
    BY <1>2 DEF ResolvTypeOK
  <2>2. CASE ReadResolv(r)
    BY <2>1, <2>2 DEF ReadResolv, Ends, Goto, ResolvTypeOK
  <2>3. CASE AppendResolv(r)
    BY <2>1, <2>3 DEF AppendResolv, Ends, Goto, ResolvTypeOK
  <2>4. CASE Elsewhere(r)
    BY <2>1, <2>4 DEF Elsewhere
  <2> QED BY <2>2, <2>3, <2>4
<1>5. l = "append dns" => ReadResolv(r)
  <2>1. l = pc'[r]
    BY <1>2 DEF ResolvTypeOK
  <2>2. CASE AppendResolv(r)
    BY <2>1, <2>2 DEF AppendResolv, Ends, Goto, ResolvTypeOK
  <2>3. CASE Elsewhere(r)
    <3>1. PICK m \in FilePlaces \ {"idle", "append dns"} : pc' = [pc EXCEPT ![r] = m]
      BY <2>3 DEF Elsewhere
    <3> QED BY <2>1, <3>1 DEF ResolvTypeOK
  <2> QED BY <2>2, <2>3
<1>6. l = "append dns" => kind[r] = "dns"
  BY <1>5 DEF ReadResolv
<1>7. pc' \in [FileRequest -> FilePlaces] /\ answer' \in [FileRequest -> {"none", "ok", "failed"}]
  BY <1>2, <1>3 DEF ResolvTypeOK
<1>8. resolv' \in Seq(Servers)
  <2>1. CASE AppendResolv(r)
    <3>1. record[r] \in Record
      BY <1>1 DEF OwnWay
    <3> DEFINE line == Nameserver(record[r].ip)
    <3>2. line \in Servers
      BY <3>1 DEF Servers
    <3>3. resolv' = Append(resolv, line) /\ resolv \in Seq(Servers)
      BY <2>1 DEF AppendResolv, ResolvTypeOK
    <3> HIDE DEF line
    <3> QED BY <3>2, <3>3
  <2>2. CASE ReadResolv(r) \/ Elsewhere(r)
    <3>1. resolv' = resolv
      BY <2>2 DEF ReadResolv, Elsewhere
    <3> QED BY <3>1 DEF ResolvTypeOK
  <2> QED BY <2>1, <2>2
<1>9. ResolvTypeOK'
  BY <1>1, <1>7, <1>8 DEF ResolvTypeOK, Servers
<1>10. pc'[r] = l /\ \A q \in FileRequest \ {r} : pc'[q] = pc[q] /\ answer'[q] = answer[q]
  BY <1>2, <1>3 DEF ResolvTypeOK
<1>11. OwnWay'
  BY <1>1, <1>2, <1>4, <1>6, <1>10 DEF OwnWay
<1> QED BY <1>1, <1>2, <1>5, <1>9, <1>10, <1>11 DEF Active

(* A line that is added to those of the file.                              *)
LEMMA Adding ==
  ASSUME ResolvTypeOK, OwnWay, NEW r \in FileRequest, AppendResolv(r)
  PROVE  /\ record[r] \in Record /\ kind[r] = "dns"
         /\ resolv' = Append(resolv, Nameserver(record[r].ip))
         /\ \A ip : Mentioned(ip) => Mentioned(ip)'
         /\ Mentioned(record[r].ip)'
<1>1. pc[r] = "append dns"
  BY DEF AppendResolv
<1>2. record[r] \in Record /\ kind[r] = "dns"
  BY <1>1 DEF OwnWay
<1>3. resolv' = Append(resolv, Nameserver(record[r].ip))
  BY DEF AppendResolv
<1>4. Nameserver(record[r].ip) \in Servers
  BY <1>2 DEF Servers
<1> DEFINE line == Nameserver(record[r].ip)
<1>6. /\ DOMAIN resolv' = 1..(Len(resolv) + 1) /\ Len(resolv) \in Nat
      /\ DOMAIN resolv = 1..Len(resolv)
      /\ \A i \in DOMAIN resolv : resolv'[i] = resolv[i]
      /\ resolv'[Len(resolv) + 1] = line
  <2>1. line \in Servers /\ resolv' = Append(resolv, line) /\ resolv \in Seq(Servers)
    BY <1>3, <1>4 DEF ResolvTypeOK
  <2> HIDE DEF line
  <2> QED BY <2>1
<1>7. Range(resolv) \subseteq Range(resolv)' /\ line \in Range(resolv)'
  BY <1>6 DEF Range
<1>8. HasText(line.ip, record[r].ip)
  BY DEF Nameserver, HasText
<1>9. \A ip : Mentioned(ip) => Mentioned(ip)'
  BY <1>7 DEF Mentioned
<1>10. Mentioned(record[r].ip)'
  <2>1. record'[r] = record[r]
    BY DEF AppendResolv, asked
  <2> QED BY <1>7, <1>8, <2>1 DEF Mentioned
<1> QED BY <1>2, <1>3, <1>9, <1>10

(* A step about the nameservers keeps the invariant: a line is added only  *)
(* by a request that has not found it, and whoever else is about to add it *)
(* has overlapped with that one.                                           *)
LEMMA ResolvStep ==
  ASSUME ResolvInv, NEW r \in FileRequest,
         ReadResolv(r) \/ AppendResolv(r) \/ Elsewhere(r)
  PROVE  ResolvInv'
<1> USE DEF ResolvInv
<1>1. /\ ResolvTypeOK' /\ OwnWay' /\ r \in Active
      /\ \A q \in FileRequest \ {r} : pc'[q] = pc[q] /\ answer'[q] = answer[q]
      /\ pc'[r] # "idle" /\ (pc'[r] = "append dns" => ReadResolv(r))
      /\ UNCHANGED <<atFirst, kind, record, overlapped>>
  BY OtherwiseTyped
<1>2. \A ip : Twice(ip)' <=> Twice(ip)
  BY <1>1 DEF Twice, Asking
<1>3. AloneOrOverlapped'
  <2>1. Active' \subseteq Active
    BY <1>1 DEF Active
  <2> QED BY <1>1, <2>1 DEF AloneOrOverlapped
<1>4. CASE AppendResolv(r)
  <2> DEFINE line == Nameserver(record[r].ip)
  <2>1. /\ record[r] \in Record /\ kind[r] = "dns"
        /\ resolv' = Append(resolv, line)
        /\ \A ip : Mentioned(ip) => Mentioned(ip)'
        /\ Mentioned(record[r].ip)'
    BY <1>4, Adding
  <2>2. pc[r] = "append dns" /\ pc'[r] # "append dns"
    <3>1. pc'[r] = "done"
      BY <1>4 DEF AppendResolv, Ends, Goto, ResolvTypeOK
    <3> QED BY <1>4, <3>1 DEF AppendResolv
  <2>3. line \in Servers /\ resolv \in Seq(Servers)
    BY <2>1 DEF Servers, ResolvTypeOK
  <2>4. \A ip : line = Nameserver(ip) <=> ip = record[r].ip
    BY DEF Nameserver
  <2>5. OkMeansThere'
    <3> SUFFICES ASSUME NEW q \in FileRequest, kind[q] = "dns", answer'[q] = "ok",
                        NEW ip, ip = record[q].ip
                 PROVE  Mentioned(ip)'
      BY <1>1 DEF OkMeansThere, Mentioned
    <3>1. CASE q = r
      BY <1>1, <2>1, <3>1 DEF Mentioned
    <3>2. CASE q # r
      <4>1. Mentioned(ip)
        BY <1>1, <3>2 DEF OkMeansThere
      <4> QED BY <2>1, <4>1
    <3> QED BY <3>1, <3>2
  <2>6. NotThereYet'
    <3> SUFFICES ASSUME NEW q \in FileRequest, pc'[q] = "append dns"
                 PROVE  \/ \A i \in DOMAIN resolv' : resolv'[i] # Nameserver(record[q].ip)
                        \/ Twice(record[q].ip)
      BY <1>1, <1>2 DEF NotThereYet
    <3>1. q # r /\ pc[q] = "append dns" /\ kind[q] = "dns" /\ q \in Active
      BY <1>1, <2>2 DEF OwnWay, Active
    <3>2. CASE record[q].ip = record[r].ip
      <4>1. r \in overlapped /\ q \in overlapped
        BY <1>1, <3>1 DEF AloneOrOverlapped
      <4> QED BY <2>1, <3>1, <3>2, <4>1 DEF Twice, Asking
    <3>3. CASE record[q].ip # record[r].ip
      <4>1. line # Nameserver(record[q].ip)
        BY <2>4, <3>3
      <4>2. CASE \A i \in DOMAIN resolv : resolv[i] # Nameserver(record[q].ip)
        <5> DEFINE other == Nameserver(record[q].ip)
        <5>1. /\ line # other /\ resolv' = Append(resolv, line)
              /\ \A i \in DOMAIN resolv : resolv[i] # other
          BY <2>1, <4>1, <4>2
        <5> HIDE DEF line, other
        <5>2. \A i \in DOMAIN Append(resolv, line) : Append(resolv, line)[i] # other
          BY <2>3, <5>1, StillOther
        <5> QED BY <5>1, <5>2 DEF other
      <4> QED BY <3>1, <4>2 DEF NotThereYet
    <3> QED BY <3>2, <3>3
  <2>7. ListedOnce'
    <3> SUFFICES ASSUME NEW rec \in Record
                 PROVE  \/ ServerLines(resolv', rec.ip) <= 1
                        \/ ServerLines(resolv', rec.ip) = ServerLines(atFirst.resolv, rec.ip)
                        \/ Twice(rec.ip)
      BY <1>1, <1>2 DEF ListedOnce
    <3>1. /\ ServerLines(resolv, rec.ip) \in Nat
          /\ (\A i \in DOMAIN resolv : resolv[i] # Nameserver(rec.ip)) =>
               ServerLines(resolv, rec.ip) = 0
          /\ line = Nameserver(rec.ip) =>
               ServerLines(resolv', rec.ip) = ServerLines(resolv, rec.ip) + 1
          /\ line # Nameserver(rec.ip) =>
               ServerLines(resolv', rec.ip) = ServerLines(resolv, rec.ip)
      <4> HIDE DEF line
      <4> QED BY <2>1, <2>3, Listings
    <3>2. CASE rec.ip = record[r].ip
      <4>1. \/ \A i \in DOMAIN resolv : resolv[i] # Nameserver(rec.ip)
            \/ Twice(rec.ip)
        BY <2>2, <3>2 DEF NotThereYet
      <4> QED BY <2>4, <3>1, <3>2, <4>1
    <3>3. CASE rec.ip # record[r].ip
      <4>1. ServerLines(resolv', rec.ip) = ServerLines(resolv, rec.ip)
        BY <2>4, <3>1, <3>3
      <4> QED BY <4>1 DEF ListedOnce
    <3> QED BY <3>2, <3>3
  <2> QED BY <1>1, <1>3, <2>5, <2>6, <2>7
<1>5. CASE ReadResolv(r) \/ Elsewhere(r)
  <2>1. resolv' = resolv /\ \A ip : Mentioned(ip)' <=> Mentioned(ip)
    BY <1>5 DEF ReadResolv, Elsewhere, Mentioned
  <2>2. answer'[r] = "ok" /\ kind[r] = "dns" => answer[r] = "ok" \/ Mentioned(record[r].ip)
    <3>1. CASE ReadResolv(r)
      BY <3>1 DEF ReadResolv, Ends, ResolvTypeOK
    <3>2. CASE Elsewhere(r)
      BY <3>2 DEF Elsewhere, ResolvTypeOK
    <3> QED BY <1>5, <3>1, <3>2
  <2>3. OkMeansThere'
    BY <1>1, <2>1, <2>2 DEF OkMeansThere
  <2>4. NotThereYet'
    <3> SUFFICES ASSUME NEW q \in FileRequest, pc'[q] = "append dns"
                 PROVE  \/ \A i \in DOMAIN resolv : resolv[i] # Nameserver(record[q].ip)
                        \/ Twice(record[q].ip)
      BY <1>1, <1>2, <2>1 DEF NotThereYet
    <3>1. CASE q # r
      BY <1>1, <3>1 DEF NotThereYet
    <3>2. CASE q = r
      <4>1. ReadResolv(r)
        BY <1>1, <3>2
      <4>2. ~Mentioned(record[r].ip)
        BY <3>2, <4>1 DEF ReadResolv, Ends, Goto, ResolvTypeOK
      <4>3. \A i \in DOMAIN resolv : resolv[i].ip # record[r].ip
        BY <4>2 DEF Mentioned, HasText, Range
      <4>4. \A i \in DOMAIN resolv : resolv[i] # Nameserver(record[q].ip)
        <5>1. Nameserver(record[q].ip).ip = record[r].ip
          BY <3>2 DEF Nameserver
        <5> QED BY <4>3, <5>1
      <4> QED BY <4>4
    <3> QED BY <3>1, <3>2
  <2>5. ListedOnce'
    BY <1>1, <1>2, <2>1 DEF ListedOnce
  <2> QED BY <1>1, <1>3, <2>3, <2>4, <2>5
<1> QED BY <1>4, <1>5

LEMMA BeginStep ==
  ASSUME ResolvInv, FilesNext, NEW r \in FileRequest, Begin(r)
  PROVE  ResolvInv'
<1> USE DEF ResolvInv
<1>1. /\ ResolvTypeOK' /\ OwnWay' /\ r \notin Active /\ kind[r] = "none"
      /\ \A q \in FileRequest \ {r} :
           pc'[q] = pc[q] /\ kind'[q] = kind[q] /\ record'[q] = record[q]
      /\ pc'[r] = "read"
      /\ overlapped \subseteq overlapped'
      /\ Active = {} \/ Active \cup {r} \subseteq overlapped'
      /\ UNCHANGED <<atFirst, resolv, answer>>
  BY Beginning
<1>2. \A ip : Twice(ip) => Twice(ip)'
  BY TwiceStays
<1>3. AloneOrOverlapped'
  <2>1. Active' = Active \cup {r}
    BY <1>1 DEF Active
  <2> QED BY <1>1, <2>1 DEF AloneOrOverlapped
<1>4. NotThereYet'
  <2>1. ASSUME NEW q \in FileRequest, pc'[q] = "append dns"
        PROVE  \/ \A i \in DOMAIN resolv : resolv[i] # Nameserver(record'[q].ip)
               \/ Twice(record[q].ip)'
    <3>1. q # r /\ record'[q] = record[q] /\ pc[q] = "append dns"
      BY <1>1, <2>1
    <3>2. CASE Twice(record[q].ip)
      <4>1. PICK ip : ip = record[q].ip
        OBVIOUS
      <4>2. Twice(ip)'
        BY <1>2, <3>2, <4>1
      <4> QED BY <3>1, <4>1, <4>2 DEF Twice, Asking
    <3> QED BY <3>1, <3>2 DEF NotThereYet
  <2> QED BY <1>1, <2>1 DEF NotThereYet
<1>5. OkMeansThere'
  <2>1. answer[r] # "ok"
    BY <1>1 DEF OwnWay
  <2> QED BY <1>1, <2>1 DEF OkMeansThere, Mentioned
<1>6. ListedOnce'
  <2>1. \A rec \in Record :
          \/ ServerLines(resolv', rec.ip) <= 1
          \/ ServerLines(resolv', rec.ip) = ServerLines(atFirst'.resolv, rec.ip)
          \/ Twice(rec.ip)'
    BY <1>1, <1>2 DEF ListedOnce
  <2> QED BY <2>1 DEF ListedOnce
<1> QED BY <1>1, <1>3, <1>4, <1>5, <1>6

LEMMA ResolvInductive ==
  ResolvInv /\ (FilesNext \/ FilesReboot \/ UNCHANGED fileVars) => ResolvInv'
<1> SUFFICES ASSUME ResolvInv, FilesNext \/ FilesReboot \/ UNCHANGED fileVars
             PROVE  ResolvInv'
  OBVIOUS
<1> USE DEF ResolvInv
<1>1. CASE FilesNext
  <2>1. CASE OtherMachine
    <3>1. /\ UNCHANGED <<kind, record, atFirst, resolv, pc, answer>>
          /\ overlapped \subseteq overlapped' /\ overlapped' \subseteq FileRequest
      BY <2>1 DEF OtherMachine, asked, Active, ResolvTypeOK
    <3>2. \A ip : Twice(ip) => Twice(ip)'
      BY <1>1, TwiceStays
    <3>3. ResolvTypeOK' /\ OwnWay' /\ AloneOrOverlapped' /\ OkMeansThere'
      BY <3>1 DEF ResolvTypeOK, Servers, OwnWay, AloneOrOverlapped, Active, OkMeansThere,
                  Mentioned
    <3>4. NotThereYet' /\ ListedOnce'
      BY <3>1, <3>2 DEF NotThereYet, ListedOnce
    <3> QED BY <3>3, <3>4
  <2> QED BY <1>1, <2>1, FileSteps, BeginStep, ResolvStep
<1>2. CASE FilesReboot
  <2>1. /\ UNCHANGED <<kind, record, atFirst, resolv, overlapped>>
        /\ pc' = [r \in FileRequest |-> IF r \in Active THEN "done" ELSE pc[r]]
        /\ answer' = [r \in FileRequest |->
             IF r \in Active /\ answer[r] = "none" THEN "failed" ELSE answer[r]]
    BY <1>2 DEF FilesReboot, asked
  <2>2. Active' = {}
    BY <2>1 DEF Active
  <2>3. ResolvTypeOK'
    BY <2>1 DEF ResolvTypeOK, Servers, FilePlaces
  <2>4. OwnWay'
    <3> SUFFICES ASSUME NEW r \in FileRequest
                 PROVE  /\ pc'[r] = "idle" <=> kind[r] = "none"
                        /\ pc'[r] = "idle" => answer'[r] = "none"
                        /\ pc'[r] # "idle" => record[r] \in Record
                        /\ kind[r] = "dns" => pc'[r] \in {"read", "append dns", "done"}
                        /\ pc'[r] = "append dns" => kind[r] = "dns"
      BY <2>1 DEF OwnWay
    <3>1. pc'[r] = pc[r] \/ (pc'[r] = "done" /\ pc[r] # "idle")
      BY <2>1 DEF Active
    <3>2. pc'[r] = "idle" => answer'[r] = answer[r]
      BY <2>1, <3>1 DEF Active
    <3> QED BY <3>1, <3>2 DEF OwnWay
  <2>5. AloneOrOverlapped' /\ NotThereYet'
    BY <2>1, <2>2 DEF AloneOrOverlapped, NotThereYet, Active
  <2>6. OkMeansThere'
    BY <2>1 DEF OkMeansThere, Mentioned
  <2>7. ListedOnce'
    BY <2>1 DEF ListedOnce, Twice, Asking
  <2> QED BY <2>3, <2>4, <2>5, <2>6, <2>7
<1>3. CASE UNCHANGED fileVars
  <2>1. UNCHANGED <<kind, record, atFirst, resolv, pc, answer, overlapped>>
    BY <1>3 DEF fileVars, asked
  <2>2. ResolvTypeOK' /\ OwnWay' /\ AloneOrOverlapped'
    BY <2>1 DEF ResolvTypeOK, Servers, OwnWay, AloneOrOverlapped, Active
  <2>3. NotThereYet'
    <3>1. ASSUME NEW q \in FileRequest, Twice(record[q].ip) PROVE Twice(record[q].ip)'
      BY <2>1, <3>1 DEF Twice, Asking
    <3> QED BY <2>1, <3>1 DEF NotThereYet
  <2>4. OkMeansThere'
    BY <2>1 DEF OkMeansThere, Mentioned
  <2>5. ListedOnce'
    BY <2>1 DEF ListedOnce, Twice, Asking
  <2> QED BY <2>2, <2>3, <2>4, <2>5
<1> QED BY <1>1, <1>2, <1>3

LEMMA ResolvHolds == Spec => []ResolvInv
<1>1. Init => ResolvInv
  BY ResolvInitInv DEF Init
<1>2. ResolvInv /\ [Next]_vars => ResolvInv'
  BY PartsOf, ResolvInductive
<1> QED BY <1>1, <1>2, PTL DEF Spec

(* UpdateResolvFile (pkg/utils/remote.go): an answer without an error      *)
(* means that the address is in /etc/resolv.conf, and however many         *)
(* requests there are, failed and repeated ones among them, and whenever   *)
(* the machine reboots, they list it a second time only if two overlapped. *)
THEOREM ServersOnce == Spec => []NameserverOnce
<1>1. ResolvInv => NameserverOnce
  <2> SUFFICES ASSUME ResolvInv, NEW r \in FileRequest, kind[r] = "dns"
               PROVE  /\ answer[r] = "ok" => Mentioned(record[r].ip)
                      /\ \/ ServerLines(resolv, record[r].ip) <= 1
                         \/ ServerLines(resolv, record[r].ip)
                              = ServerLines(atFirst.resolv, record[r].ip)
                         \/ Cardinality(Asking(record[r].ip) \cap overlapped) > 1
    BY DEF NameserverOnce, Asking
  <2> USE DEF ResolvInv
  <2>1. record[r] \in Record
    <3>1. pc[r] # "idle"
      BY DEF OwnWay
    <3> QED BY <3>1 DEF OwnWay
  <2>2. ASSUME Twice(record[r].ip)
        PROVE  Cardinality(Asking(record[r].ip) \cap overlapped) > 1
    <3> DEFINE both == Asking(record[r].ip) \cap overlapped
    <3>1. PICK p, q \in both : p # q
      BY <2>2 DEF Twice
    <3>2. IsFiniteSet(both)
      BY HostFilesAssumption, FS_Subset DEF Asking
    <3>3. Cardinality({p, q}) = 2
      <4>1. Cardinality({q}) = 1 /\ IsFiniteSet({q})
        BY FS_Singleton
      <4>2. Cardinality({q} \cup {p}) = Cardinality({q}) + 1
        BY <3>1, <4>1, FS_AddElement
      <4>3. {q} \cup {p} = {p, q}
        OBVIOUS
      <4> QED BY <4>1, <4>2, <4>3
    <3>4. Cardinality({p, q}) <= Cardinality(both) /\ Cardinality(both) \in Nat
      BY <3>1, <3>2, FS_Subset, FS_CardinalityType
    <3> QED BY <3>3, <3>4
  <2> QED BY <2>1, <2>2 DEF OkMeansThere, ListedOnce
<1> QED BY <1>1, ResolvHolds, PTL

----------------------------------------------------------------------------
(* What sed prints, and the line a name resolves by.                       *)

(* Induction over the numbers, for sets in the place of predicates.        *)
LEMMA Least ==
  ASSUME NEW T \in SUBSET Nat, T # {}
  PROVE  \E n \in T : \A m \in T : n <= m
<1> DEFINE Less == {p \in Nat \X Nat : p[1] < p[2]}
<1>1. IsWellFoundedOn(Less, Nat)
  BY NatLessThanWellFounded, Zenon DEF OpToRel
<1>2. PICK n \in T : \A m \in T : <<m, n>> \notin Less
  <2> HIDE DEF Less
  <2> QED BY <1>1, WFMin
<1>3. \A m \in T : m \in Nat /\ n \in Nat
  OBVIOUS
<1>4. \A m \in T : ~(m < n)
  BY <1>2, <1>3
<1> QED BY <1>3, <1>4

LEMMA Induction ==
  ASSUME NEW T \in SUBSET Nat, 0 \in T, \A n \in T : n + 1 \in T
  PROVE  T = Nat
<1> SUFFICES ASSUME Nat \ T # {} PROVE FALSE
  OBVIOUS
<1>1. PICK n \in Nat \ T : \A m \in Nat \ T : n <= m
  <2> Nat \ T \in SUBSET Nat
    OBVIOUS
  <2> QED BY Least
<1>2. n # 0
  OBVIOUS
<1>3. n - 1 \in T
  BY <1>1, <1>2
<1> QED BY <1>3

(* sed's loop.                                                             *)
IsOutput(lines, kept, N, f) ==
  f = [n \in 0..N |-> IF n = 0 THEN <<>>
                      ELSE IF lines[n] \in kept THEN Append(f[n - 1], lines[n])
                      ELSE f[n - 1]]

LEMMA OutputExists ==
  ASSUME NEW lines, NEW kept, NEW N \in Nat
  PROVE  \E f : IsOutput(lines, kept, N, f)
<1> DEFINE T == {k \in Nat : \E f : IsOutput(lines, kept, k, f)}
           Row(n, before) == IF lines[n] \in kept THEN Append(before, lines[n]) ELSE before
<1>1. 0 \in T
  <2> DEFINE f == [n \in 0..0 |-> <<>>]
  <2>1. IsOutput(lines, kept, 0, f)
    BY DEF IsOutput
  <2> QED BY <2>1
<1>2. ASSUME NEW k \in T PROVE k + 1 \in T
  <2>1. PICK f : IsOutput(lines, kept, k, f)
    OBVIOUS
  <2> DEFINE g == [n \in 0..(k + 1) |-> IF n = k + 1 THEN Row(n, f[k]) ELSE f[n]]
  <2>2. g[k + 1] = Row(k + 1, f[k]) /\ \A n \in 0..k : g[n] = f[n]
    OBVIOUS
  <2>3. \A n \in 0..k : f[n] = IF n = 0 THEN <<>> ELSE Row(n, f[n - 1])
    BY <2>1 DEF IsOutput
  <2>4. DOMAIN g = 0..(k + 1) /\ g = [n \in 0..(k + 1) |-> g[n]]
    OBVIOUS
  <2> HIDE DEF g
  <2>5. ASSUME NEW n \in 0..(k + 1)
        PROVE  g[n] = IF n = 0 THEN <<>> ELSE Row(n, g[n - 1])
    <3> HIDE DEF Line
    <3>1. CASE n = k + 1
      <4>1. n - 1 = k /\ k \in 0..k /\ n # 0
        BY <3>1
      <4>2. g[n - 1] = f[k]
        BY <2>2, <4>1
      <4> QED BY <2>2, <3>1, <4>1, <4>2
    <3>2. CASE n \in 0..k /\ n # 0
      <4>1. n - 1 \in 0..k
        BY <3>2
      <4>2. g[n] = f[n] /\ g[n - 1] = f[n - 1]
        BY <2>2, <3>2, <4>1
      <4> QED BY <2>3, <3>2, <4>2
    <3>3. CASE n = 0
      BY <2>2, <2>3, <3>3
    <3> QED BY <3>1, <3>2, <3>3
  <2>6. IsOutput(lines, kept, k + 1, g)
    BY <2>4, <2>5 DEF IsOutput
  <2> QED BY <2>6
<1>3. T = Nat
  <2> HIDE DEF T
  <2> T \in SUBSET Nat
    BY DEF T
  <2> QED BY <1>1, <1>2, Induction
<1> QED BY <1>3

(* f[n] is what sed has printed after n lines.                             *)
Prints(lines, kept, f) ==
  /\ f[0] = <<>> /\ Printed(lines, kept) = f[Len(lines)]
  /\ \A n \in 1..Len(lines) :
       f[n] = IF lines[n] \in kept THEN Append(f[n - 1], lines[n]) ELSE f[n - 1]

LEMMA Output ==
  ASSUME NEW lines, NEW kept, Len(lines) \in Nat
  PROVE  \E f : Prints(lines, kept, f)
<1> DEFINE output == CHOOSE f : IsOutput(lines, kept, Len(lines), f)
<1>1. Printed(lines, kept) = output[Len(lines)]
  BY DEF Printed, IsOutput
<1>2. \E f : IsOutput(lines, kept, Len(lines), f)
  BY OutputExists
<1>3. IsOutput(lines, kept, Len(lines), output)
  BY <1>2
<1> HIDE DEF output
<1>4. /\ output[0] = <<>>
      /\ \A n \in 1..Len(lines) :
           output[n] = IF lines[n] \in kept THEN Append(output[n - 1], lines[n])
                       ELSE output[n - 1]
  <2>1. \A n \in 0..Len(lines) :
          output[n] = IF n = 0 THEN <<>>
                      ELSE IF lines[n] \in kept THEN Append(output[n - 1], lines[n])
                      ELSE output[n - 1]
    BY <1>3 DEF IsOutput
  <2>2. 0 \in 0..Len(lines) /\ \A n \in 1..Len(lines) : n \in 0..Len(lines) /\ n # 0
    OBVIOUS
  <2> QED BY <2>1, <2>2
<1>5. Prints(lines, kept, output)
  BY <1>1, <1>4 DEF Prints
<1> QED BY <1>5

(* The first of some lines that has a name.                                *)
First(lines, e, x) ==
  \E i \in DOMAIN lines : /\ lines[i] = x /\ Names(x, e)
                          /\ \A j \in DOMAIN lines : j < i => ~Names(lines[j], e)
Nobody(lines, e) == \A i \in DOMAIN lines : ~Names(lines[i], e)

LEMMA FirstStays ==
  ASSUME NEW S, NEW s \in Seq(S), NEW y \in S, NEW e
  PROVE  /\ \A x : First(s, e, x) => First(Append(s, y), e, x)
         /\ Nobody(s, e) /\ ~Names(y, e) => Nobody(Append(s, y), e)
         /\ Nobody(s, e) /\ Names(y, e) => First(Append(s, y), e, y)
<1>1. /\ Len(s) \in Nat /\ DOMAIN s = 1..Len(s)
      /\ DOMAIN Append(s, y) = 1..(Len(s) + 1)
      /\ \A i \in 1..Len(s) : Append(s, y)[i] = s[i]
      /\ Append(s, y)[Len(s) + 1] = y
  OBVIOUS
<1> DEFINE t == Append(s, y)
<1> HIDE DEF t
<1>2. \A x : First(s, e, x) => First(t, e, x)
  BY <1>1 DEF First, t
<1>3. Nobody(s, e) /\ ~Names(y, e) => Nobody(t, e)
  BY <1>1 DEF Nobody, t
<1>4. Nobody(s, e) /\ Names(y, e) => First(t, e, y)
  BY <1>1 DEF Nobody, First, t
<1> QED BY <1>2, <1>3, <1>4 DEF t

(* What is printed are the lines to keep, and the first line that has a    *)
(* name, if it is kept, remains the first.                                 *)
LEMMA PrintedLines ==
  ASSUME NEW S, NEW lines \in Seq(S), NEW kept
  PROVE  /\ Printed(lines, kept) \in Seq(S \cap kept)
         /\ \A e : \A x \in kept : First(lines, e, x) => First(Printed(lines, kept), e, x)
         /\ lines # <<>> /\ Last(lines) \in kept => Printed(lines, kept) # <<>>
<1> DEFINE N == Len(lines)
           K == S \cap kept
<1>1. N \in Nat /\ DOMAIN lines = 1..N /\ \A n \in 1..N : lines[n] \in S
  OBVIOUS
<1>8. PICK f : Prints(lines, kept, f)
  BY <1>1, Output
<1>2. /\ f[0] = <<>> /\ Printed(lines, kept) = f[N]
      /\ \A n \in 1..N :
           f[n] = IF lines[n] \in kept THEN Append(f[n - 1], lines[n]) ELSE f[n - 1]
  BY <1>8 DEF Prints
<1> HIDE DEF N, K
<1>3. ASSUME NEW n \in Nat, n + 1 <= N
      PROVE  /\ n + 1 \in 1..N /\ (n + 1) - 1 = n
             /\ f[n + 1] = IF lines[n + 1] \in kept THEN Append(f[n], lines[n + 1]) ELSE f[n]
  BY <1>1, <1>2, <1>3
<1> DEFINE T == {n \in Nat : n <= N => f[n] \in Seq(K)}
<1>4. T = Nat
  <2>1. 0 \in T
    <3>1. f[0] \in Seq(K)
      BY <1>2
    <3> QED BY <3>1
  <2>2. ASSUME NEW n \in T PROVE n + 1 \in T
    <3> SUFFICES ASSUME n + 1 <= N PROVE f[n + 1] \in Seq(K)
      OBVIOUS
    <3>1. f[n] \in Seq(K)
      BY <1>1
    <3>2. lines[n + 1] \in kept => lines[n + 1] \in K
      BY <1>1, <1>3 DEF K
    <3>3. CASE lines[n + 1] \in kept
      <4>1. f[n + 1] = Append(f[n], lines[n + 1])
        BY <1>3, <3>3
      <4> QED BY <3>1, <3>2, <3>3, <4>1
    <3>4. CASE lines[n + 1] \notin kept
      BY <1>3, <3>1, <3>4
    <3> QED BY <3>3, <3>4
  <2> HIDE DEF T
  <2>3. T \in SUBSET Nat
    BY DEF T
  <2> QED BY <2>1, <2>2, <2>3, Induction
<1>5. \A n \in 0..N : f[n] \in Seq(K)
  BY <1>1, <1>4
<1> HIDE DEF T
<1>6. ASSUME NEW e, NEW x \in kept, First(lines, e, x) PROVE First(f[N], e, x)
  <2>1. PICK i \in 1..N : /\ lines[i] = x /\ Names(x, e)
                          /\ \A j \in 1..N : j < i => ~Names(lines[j], e)
    BY <1>1, <1>6 DEF First
  <2> DEFINE B == {n \in Nat : n <= N => IF n < i THEN Nobody(f[n], e) ELSE First(f[n], e, x)}
  <2>2. 0 \in B
    BY <1>1, <1>2, <2>1 DEF Nobody
  <2>3. ASSUME NEW n \in B PROVE n + 1 \in B
    <3> SUFFICES ASSUME n + 1 <= N
                 PROVE  IF n + 1 < i THEN Nobody(f[n + 1], e) ELSE First(f[n + 1], e, x)
      OBVIOUS
    <3>1. f[n] \in Seq(K) /\ n <= N
      BY <1>1, <1>5
    <3>2. IF n < i THEN Nobody(f[n], e) ELSE First(f[n], e, x)
      BY <3>1
    <3>3. lines[n + 1] \in kept => lines[n + 1] \in K
      BY <1>1, <1>3 DEF K
    <3>4. CASE n + 1 < i
      <4>1. ~Names(lines[n + 1], e) /\ n < i
        BY <1>1, <1>3, <2>1, <3>4
      <4>2. Nobody(f[n], e)
        BY <3>2, <4>1
      <4> QED BY <1>3, <3>1, <3>3, <3>4, <4>1, <4>2, FirstStays
    <3>5. CASE n + 1 = i
      <4>1. Nobody(f[n], e)
        BY <3>2, <3>5
      <4>2. f[n + 1] = Append(f[n], x) /\ x \in K
        BY <1>3, <2>1, <3>3, <3>5
      <4>3. First(f[n + 1], e, x)
        BY <2>1, <3>1, <4>1, <4>2, FirstStays
      <4> QED BY <3>5, <4>3
    <3>6. CASE n + 1 > i
      <4>1. First(f[n], e, x)
        BY <3>2, <3>6
      <4>2. First(f[n + 1], e, x)
        BY <1>3, <3>1, <3>3, <4>1, FirstStays
      <4> QED BY <3>6, <4>2
    <3> QED BY <3>4, <3>5, <3>6
  <2>4. B = Nat
    <3> HIDE DEF B
    <3>1. B \in SUBSET Nat
      BY DEF B
    <3> QED BY <2>2, <2>3, <3>1, Induction
  <2>5. N \in B
    BY <1>1, <2>4
  <2> QED BY <2>1, <2>5
<1>7. f[N] \in Seq(K)
  BY <1>1, <1>5
<1>9. ASSUME lines # <<>>, Last(lines) \in kept PROVE f[N] # <<>>
  <2>1. N # 0 /\ Last(lines) = lines[N]
    BY <1>9 DEF N, Last
  <2>2. N \in 1..N /\ N - 1 \in 0..N
    BY <1>1, <2>1
  <2>3. f[N] = Append(f[N - 1], lines[N]) /\ f[N - 1] \in Seq(K)
    BY <1>2, <1>5, <1>9, <2>1, <2>2
  <2>4. lines[N] \in K
    BY <1>1, <1>9, <2>1, <2>2 DEF K
  <2> QED BY <2>3, <2>4
<1> QED BY <1>2, <1>6, <1>7, <1>9 DEF K

(* What the first line means to the resolver.                              *)
LEMMA FirstResolves ==
  ASSUME NEW S, NEW file, file.lines \in Seq(S), NEW e
  PROVE  /\ \A x : First(file.lines, e, x) => Resolve(file, e) = x.ip
         /\ Nobody(file.lines, e) \/ \E x : First(file.lines, e, x)
         /\ Nobody(file.lines, e) => Resolve(file, e) = None
<1> DEFINE lines == file.lines
           hits == {i \in DOMAIN lines : Names(lines[i], e)}
<1>1. hits \in SUBSET Nat
  OBVIOUS
<1>2. ASSUME NEW x, First(lines, e, x) PROVE Resolve(file, e) = x.ip
  <2>1. PICK i \in hits : lines[i] = x /\ \A j \in hits : ~(j < i)
    BY <1>2 DEF First
  <2>2. \A j \in hits : i <= j
    BY <1>1, <2>1
  <2>3. Min(hits) = i
    <3>1. \A m \in hits : (\A j \in hits : m <= j) => m = i
      BY <1>1, <2>2
    <3> HIDE DEF hits
    <3> QED BY <2>2, <3>1 DEF Min
  <2> QED BY <2>1, <2>3 DEF Resolve
<1>3. hits = {} \/ \E x : First(lines, e, x)
  <2> SUFFICES ASSUME hits # {} PROVE \E x : First(lines, e, x)
    OBVIOUS
  <2>1. PICK i \in hits : \A j \in hits : i <= j
    <3> HIDE DEF hits
    <3> QED BY <1>1, Least
  <2>2. First(lines, e, lines[i])
    BY <1>1, <2>1 DEF First
  <2> QED BY <2>2
<1>4. hits = {} <=> Nobody(lines, e)
  BY DEF Nobody
<1>5. hits = {} => Resolve(file, e) = None
  BY DEF Resolve
<1> QED BY <1>2, <1>3, <1>4, <1>5

----------------------------------------------------------------------------
(* What the methods make of a file.                                        *)
IsLine(l) == l.names # <<>> /\ l.names \in Seq(Range(l.names))

LEMMA OfLines ==
  ASSUME NEW S, NEW lines \in Seq(S), \A l \in S : IsLine(l),
         NEW cut \in BOOLEAN, cut => lines # <<>>
  PROVE  IsFile(File(lines, cut)) /\ File(lines, cut).lines = lines /\ File(lines, cut).cut = cut
<1>1. /\ DOMAIN lines = 1..Len(lines) /\ Len(lines) \in Nat
      /\ lines \in [1..Len(lines) -> S]
  OBVIOUS
<1>2. lines \in Seq(Range(lines))
  <2>1. lines \in [1..Len(lines) -> Range(lines)]
    BY <1>1 DEF Range
  <2> QED BY <1>1, <2>1, SeqDef
<1>3. \A l \in Range(lines) : IsLine(l)
  BY <1>1 DEF Range
<1> QED BY <1>2, <1>3 DEF IsFile, File, IsLine

LEMMA FileLines ==
  ASSUME NEW file, IsFile(file)
  PROVE  /\ file.lines \in Seq(Range(file.lines)) /\ file.cut \in BOOLEAN
         /\ file.cut => file.lines # <<>>
         /\ DOMAIN file.lines = 1..Len(file.lines) /\ Len(file.lines) \in Nat
         /\ file = File(file.lines, file.cut)
         /\ \A l \in Range(file.lines) : IsLine(l)
         /\ \A i \in DOMAIN file.lines : file.lines[i] \in Range(file.lines)
<1>1. /\ file.lines \in Seq(Range(file.lines)) /\ file.cut \in BOOLEAN
      /\ file = File(file.lines, file.cut) /\ (file.cut => file.lines # <<>>)
      /\ \A l \in Range(file.lines) : IsLine(l)
  BY DEF IsFile, File, IsLine
<1> QED BY <1>1 DEF Range

LEMMA NewLine ==
  ASSUME NEW rec
  PROVE  LET line == Line(rec)
         IN  /\ IsLine(line) /\ line.ip = rec.ip /\ \A e : Names(line, e) <=> e = rec.domain
<1>1. Line(rec).names = <<rec.domain>> /\ Line(rec).ip = rec.ip
  BY DEF Line
<1>2. Range(<<rec.domain>>) = {rec.domain}
  BY DEF Range
<1>3. <<rec.domain>> \in Seq({rec.domain}) /\ <<rec.domain>> # <<>>
  OBVIOUS
<1> QED BY <1>1, <1>2, <1>3 DEF IsLine, Names

LEMMA WithoutLines ==
  ASSUME NEW file, IsFile(file), NEW d
  PROVE  LET after == WithoutDomain(file, d)
         IN  /\ IsFile(after) /\ (~file.cut => ~after.cut)
             /\ \A l \in Range(after.lines) : l \in Range(file.lines) /\ ~EndsIn(l, d)
             /\ \A e, x : First(file.lines, e, x) /\ ~EndsIn(x, d) =>
                            First(after.lines, e, x)
<1> DEFINE R == Range(file.lines)
           kept == {l \in R : ~EndsIn(l, d)}
           lines == Printed(file.lines, kept)
           cut == file.cut /\ ~EndsIn(Last(file.lines), d)
<1>1. /\ file.lines \in Seq(R) /\ file.cut \in BOOLEAN /\ \A l \in R : IsLine(l)
      /\ file.cut => file.lines # <<>>
  BY FileLines
<1>2. WithoutDomain(file, d) = File(lines, cut) /\ cut \in BOOLEAN
  BY <1>1 DEF WithoutDomain
<1>3. cut => Last(file.lines) \in kept
  <2> SUFFICES ASSUME cut PROVE Last(file.lines) \in R
    OBVIOUS
  <2> HIDE DEF R
  <2> QED BY <1>1 DEF Last
<1> HIDE DEF kept, lines, R
<1>4. /\ lines \in Seq(R \cap kept)
      /\ \A e : \A x \in kept : First(file.lines, e, x) => First(lines, e, x)
      /\ cut => lines # <<>>
  BY <1>1, <1>3, PrintedLines DEF lines
<1>5. IsFile(File(lines, cut)) /\ File(lines, cut).lines = lines /\ File(lines, cut).cut = cut
  <2>1. \A l \in R \cap kept : IsLine(l)
    BY <1>1
  <2> HIDE DEF cut
  <2> QED BY <1>2, <1>4, <2>1, OfLines
<1>6. \A l \in Range(lines) : l \in R /\ l \in kept
  BY <1>4 DEF Range
<1>7. \A e, x : First(file.lines, e, x) /\ ~EndsIn(x, d) => x \in kept
  BY DEF First, Range, kept, R
<1> QED BY <1>2, <1>4, <1>5, <1>6, <1>7 DEF kept, R

LEMMA AppendedLine ==
  ASSUME NEW file, IsFile(file), ~file.cut, NEW line, IsLine(line)
  PROVE  LET after == Appended(file, line)
         IN  /\ IsFile(after) /\ ~after.cut
             /\ \A e, x : First(file.lines, e, x) => First(after.lines, e, x)
             /\ \A e : Nobody(file.lines, e) /\ Names(line, e) => First(after.lines, e, line)
<1>1. /\ file.lines \in Seq(Range(file.lines)) /\ file.cut \in BOOLEAN
      /\ file = File(file.lines, file.cut) /\ \A l \in Range(file.lines) : IsLine(l)
  BY FileLines
<1> DEFINE S == Range(file.lines) \cup {line}
           lines == Append(file.lines, line)
<1>2. Appended(file, line) = File(lines, file.cut)
  BY <1>1 DEF Appended, File
<1>3. file.lines \in Seq(S) /\ line \in S /\ \A l \in S : IsLine(l)
  BY <1>1
<1> HIDE DEF S
<1>4. lines \in Seq(S)
  BY <1>3
<1>5. /\ \A e, x : First(file.lines, e, x) => First(lines, e, x)
      /\ \A e : Nobody(file.lines, e) /\ Names(line, e) => First(lines, e, line)
  BY <1>3, FirstStays
<1> HIDE DEF lines
<1>6. /\ IsFile(File(lines, file.cut)) /\ File(lines, file.cut).lines = lines
      /\ File(lines, file.cut).cut = file.cut
  BY <1>1, <1>3, <1>4, OfLines
<1> QED BY <1>2, <1>5, <1>6

(* A line glued to one that is cut.                                        *)
LEMMA GluedLine ==
  ASSUME NEW file, IsFile(file), file.cut, NEW line, IsLine(line)
  PROVE  IsFile(Appended(file, line))
<1> DEFINE R == Range(file.lines)
           last == Last(file.lines)
           names == Append(Front(last.names), "glued") \o line.names
           glued == [ip |-> last.ip, names |-> names, spaced |-> line.spaced]
           lines == Append(Front(file.lines), glued)
<1>1. file.lines \in Seq(R) /\ file.lines # <<>> /\ \A l \in R : IsLine(l)
  BY FileLines
<1> HIDE DEF R
<1>2. last \in R /\ Front(file.lines) \in Seq(R)
  BY <1>1 DEF Last, Front
<1>3. IsLine(glued)
  <2> DEFINE T == Range(last.names) \cup Range(line.names) \cup {"glued"}
  <2>1. last.names \in Seq(T) /\ last.names # <<>> /\ line.names \in Seq(T)
    BY <1>1, <1>2 DEF IsLine
  <2>2. "glued" \in T
    OBVIOUS
  <2> HIDE DEF T, last
  <2>3. Front(last.names) \in Seq(T)
    BY <2>1 DEF Front
  <2>4. Append(Front(last.names), "glued") \in Seq(T)
    BY <2>2, <2>3
  <2>5. names \in Seq(T) /\ names # <<>>
    <3> DEFINE cutName == Append(Front(last.names), "glued")
    <3>1. cutName \in Seq(T) /\ cutName # <<>>
      BY <2>2, <2>3
    <3> HIDE DEF cutName
    <3>2. cutName \o line.names \in Seq(T) /\ cutName \o line.names # <<>>
      BY <2>1, <3>1
    <3> QED BY <3>2 DEF cutName
  <2> HIDE DEF names
  <2>6. DOMAIN names = 1..Len(names) /\ Len(names) \in Nat /\ names \in [1..Len(names) -> T]
    BY <2>5
  <2>7. names \in [1..Len(names) -> Range(names)]
    BY <2>6 DEF Range
  <2>8. names \in Seq(Range(names))
    BY <2>6, <2>7, SeqDef
  <2> QED BY <2>5, <2>8 DEF IsLine
<1> HIDE DEF glued
<1>4. lines \in Seq(R \cup {glued}) /\ \A l \in R \cup {glued} : IsLine(l)
  BY <1>1, <1>2, <1>3
<1>5. IsFile(File(lines, FALSE))
  <2> HIDE DEF lines
  <2> QED BY <1>4, OfLines
<1>6. Appended(file, line) = File(lines, FALSE)
  BY DEF Appended, glued
<1> QED BY <1>5, <1>6

(* AddHosts, whose sed has worked or not and whose append may have: names  *)
(* that are on no line that ends in the domain resolve as before, and the  *)
(* domain as asked if only such lines had it.                              *)
LEMMA AddKeeps ==
  ASSUME NEW c, IsFile(c), NEW rec, NEW file, file \in {c, WithoutDomain(c, rec.domain)},
         NEW after, after \in {file, Appended(file, Line(rec))},
         NEW e, ~Nobody(c.lines, e), ~Entangled("add", c, e, rec.domain)
  PROVE  Resolve(after, e) = Resolve(c, e)
<1>1. ~c.cut /\ \A l \in Range(c.lines) : Names(l, e) => ~EndsIn(l, rec.domain)
  BY DEF Entangled
<1>2. c.lines \in Seq(Range(c.lines))
  BY FileLines
<1>3. PICK x : First(c.lines, e, x)
  BY <1>2, FirstResolves
<1>4. Resolve(c, e) = x.ip /\ ~EndsIn(x, rec.domain)
  BY <1>1, <1>2, <1>3, FirstResolves DEF First, Range
<1>5. IsFile(file) /\ ~file.cut /\ First(file.lines, e, x)
  BY <1>1, <1>3, <1>4, WithoutLines
<1>6. IsFile(after) /\ First(after.lines, e, x)
  BY <1>5, AppendedLine, NewLine
<1>7. after.lines \in Seq(Range(after.lines))
  BY <1>6, FileLines
<1> QED BY <1>4, <1>6, <1>7, FirstResolves

LEMMA AddDoes ==
  ASSUME NEW c, IsFile(c), ~c.cut, NEW rec, NEW file,
         \/ file = c /\ \A l \in Range(c.lines) : ~Names(l, rec.domain)
         \/ /\ file = WithoutDomain(c, rec.domain)
            /\ \A l \in Range(c.lines) : Names(l, rec.domain) => EndsIn(l, rec.domain)
  PROVE  Resolve(Appended(file, Line(rec)), rec.domain) = rec.ip
<1> DEFINE d == rec.domain
           line == Line(rec)
           after == Appended(file, line)
<1>1. IsFile(file) /\ ~file.cut /\ \A l \in Range(file.lines) : ~Names(l, d)
  BY WithoutLines
<1>2. Nobody(file.lines, d)
  BY <1>1, FileLines DEF Nobody
<1>3. Names(line, d) /\ line.ip = rec.ip /\ IsLine(line)
  BY NewLine
<1> HIDE DEF line
<1>4. IsFile(after) /\ First(after.lines, d, line)
  BY <1>1, <1>2, <1>3, AppendedLine
<1>5. after.lines \in Seq(Range(after.lines))
  BY <1>4, FileLines
<1>6. Resolve(after, d) = line.ip
  <2> HIDE DEF after
  <2> QED BY <1>4, <1>5, FirstResolves
<1> QED BY <1>3, <1>6 DEF line

(* UpdateHostsFile's lines.                                                *)
LEMMA ReplacedLines ==
  ASSUME NEW c, IsFile(c), NEW rec
  PROVE  LET after == Replaced(c, rec)
         IN  /\ IsFile(after) /\ Resolve(after, rec.domain) = rec.ip
             /\ \A e : /\ e # rec.domain /\ ~Nobody(c.lines, e)
                       /\ ~Entangled("update", c, e, rec.domain)
                       => Resolve(after, e) = Resolve(c, e)
<1> DEFINE d == rec.domain
           line == Line(rec)
           R == Range(c.lines)
           after == Replaced(c, rec)
<1>1. /\ c.lines \in Seq(R) /\ c.cut \in BOOLEAN /\ \A l \in R : IsLine(l)
      /\ c.cut => c.lines # <<>>
      /\ DOMAIN c.lines = 1..Len(c.lines) /\ Len(c.lines) \in Nat
      /\ c = File(c.lines, c.cut) /\ \A i \in DOMAIN c.lines : c.lines[i] \in R
  BY FileLines
<1>2. IsLine(line) /\ line.ip = rec.ip /\ \A e : Names(line, e) <=> e = d
  BY NewLine
<1>3. \A l : Names(l, d) => Holds(l, d)
  BY DEF Names, Holds, HasText
<1>4. \A e : ~Entangled("update", c, e, d) => \A l \in R : Names(l, e) => ~Holds(l, d)
  BY DEF Entangled
<1> HIDE DEF line, R
<1>5. CASE \E i \in DOMAIN c.lines : Holds(c.lines[i], d)
  <2> DEFINE lines == [i \in DOMAIN c.lines |-> IF Holds(c.lines[i], d) THEN line
                                                ELSE c.lines[i]]
  <2>1. after = File(lines, c.cut)
    BY <1>1, <1>5 DEF Replaced, File, line
  <2>2. DOMAIN lines = DOMAIN c.lines
    OBVIOUS
  <2>3. \A i \in DOMAIN c.lines :
          lines[i] = IF Holds(c.lines[i], d) THEN line ELSE c.lines[i]
    OBVIOUS
  <2>4. lines \in [1..Len(c.lines) -> R \cup {line}]
    BY <1>1
  <2> HIDE DEF lines
  <2>5. lines \in Seq(R \cup {line}) /\ Len(lines) = Len(c.lines)
    BY <1>1, <2>4, SeqDef
  <2>6. c.cut => lines # <<>>
    <3>1. c.lines # <<>> => Len(c.lines) # 0
      BY <1>1
    <3> QED BY <1>1, <2>5, <3>1
  <2>7. IsFile(after) /\ after.lines = lines
    <3>1. \A l \in R \cup {line} : IsLine(l)
      BY <1>1, <1>2
    <3> HIDE DEF after
    <3> QED BY <1>1, <2>1, <2>5, <2>6, <3>1, OfLines
  <2>8. Resolve(after, d) = rec.ip
    <3>1. ~Nobody(lines, d)
      BY <1>2, <1>5, <2>2, <2>3 DEF Nobody
    <3>2. PICK x : First(lines, d, x)
      <4> HIDE DEF after
      <4> QED BY <2>5, <2>7, <3>1, FirstResolves
    <3>3. x = line
      BY <1>3, <2>2, <2>3, <3>2 DEF First
    <3>4. Resolve(after, d) = x.ip
      <4> HIDE DEF after
      <4> QED BY <2>5, <2>7, <3>2, FirstResolves
    <3> QED BY <1>2, <3>3, <3>4
  <2>9. ASSUME NEW e, e # d, ~Nobody(c.lines, e), ~Entangled("update", c, e, d)
        PROVE  Resolve(after, e) = Resolve(c, e)
    <3>1. PICK x : First(c.lines, e, x)
      BY <1>1, <2>9, FirstResolves
    <3>2. First(lines, e, x)
      <4>1. PICK i \in DOMAIN c.lines :
              /\ c.lines[i] = x /\ Names(x, e)
              /\ \A j \in DOMAIN c.lines : j < i => ~Names(c.lines[j], e)
        BY <3>1 DEF First
      <4>2. lines[i] = x
        BY <1>1, <1>4, <2>3, <2>9, <4>1
      <4>3. ASSUME NEW j \in DOMAIN lines, j < i PROVE ~Names(lines[j], e)
        BY <1>2, <2>2, <2>3, <2>9, <4>1, <4>3
      <4> QED BY <2>2, <4>1, <4>2, <4>3 DEF First
    <3> HIDE DEF after
    <3> QED BY <1>1, <2>5, <2>7, <3>1, <3>2, FirstResolves
  <2> QED BY <2>7, <2>8, <2>9
<1>6. CASE ~\E i \in DOMAIN c.lines : Holds(c.lines[i], d)
  <2> DEFINE lines == Append(c.lines, line)
  <2>1. after = File(lines, TRUE)
    BY <1>6 DEF Replaced, line
  <2>2. c.lines \in Seq(R \cup {line}) /\ line \in R \cup {line}
    BY <1>1
  <2>3. lines \in Seq(R \cup {line}) /\ lines # <<>>
    <3> DEFINE S == R \cup {line}
    <3>1. c.lines \in Seq(S) /\ line \in S
      BY <2>2
    <3> HIDE DEF S
    <3>2. lines \in Seq(S) /\ Len(lines) = Len(c.lines) + 1
      BY <3>1
    <3>3. lines # <<>>
      BY <1>1, <3>2
    <3> QED BY <3>2, <3>3 DEF S
  <2>4. Nobody(c.lines, d)
    BY <1>3, <1>6 DEF Nobody
  <2>5. /\ First(lines, d, line)
        /\ \A e, x : First(c.lines, e, x) => First(lines, e, x)
    <3> HIDE DEF lines
    <3> QED BY <1>2, <2>2, <2>4, FirstStays DEF lines
  <2> HIDE DEF lines
  <2>6. IsFile(after) /\ after.lines = lines
    <3>1. \A l \in R \cup {line} : IsLine(l)
      BY <1>1, <1>2
    <3> HIDE DEF after
    <3> QED BY <2>1, <2>3, <3>1, OfLines
  <2>7. Resolve(after, d) = rec.ip
    <3> HIDE DEF after
    <3> QED BY <1>2, <2>3, <2>5, <2>6, FirstResolves
  <2>8. ASSUME NEW e, ~Nobody(c.lines, e) PROVE Resolve(after, e) = Resolve(c, e)
    <3>1. PICK x : First(c.lines, e, x)
      BY <1>1, <2>8, FirstResolves
    <3>2. Resolve(c, e) = x.ip
      BY <1>1, <3>1, FirstResolves
    <3> HIDE DEF after
    <3>3. First(after.lines, e, x) /\ after.lines \in Seq(R \cup {line})
      BY <2>3, <2>5, <2>6, <3>1
    <3> QED BY <3>2, <3>3, FirstResolves
  <2> QED BY <2>6, <2>7, <2>8
<1> QED BY <1>5, <1>6

LEMMA ReplacedKeeps ==
  ASSUME NEW c, IsFile(c), NEW rec, NEW e, e # rec.domain, ~Nobody(c.lines, e),
         ~Entangled("update", c, e, rec.domain)
  PROVE  Resolve(Replaced(c, rec), e) = Resolve(c, e)
BY ReplacedLines

(* AddMultiHosts' lines: those of a set, in some order.                    *)
LEMMA OrderOf ==
  ASSUME NEW S, IsFiniteSet(S)
  PROVE  SetToSeq(S) \in Seq(S) /\ Range(SetToSeq(S)) = S
<1> DEFINE n == Cardinality(S)
           s == SetToSeq(S)
<1>1. n \in Nat /\ ExistsBijection(1..n, S)
  BY FS_CardinalityType
<1> HIDE DEF n
<1>2. \E f \in [1..n -> S] : IsInjective(f)
  BY <1>1 DEF ExistsBijection, Bijection, Injection
<1>3. s \in [1..n -> S] /\ IsInjective(s)
  BY <1>2 DEF SetToSeq, n
<1> HIDE DEF s
<1>4. IsFiniteSet(1..n) /\ Cardinality(1..n) = n
  BY <1>1, FS_Interval
<1>5. s \in Surjection(1..n, S)
  <2>1. s \in Injection(1..n, S)
    BY <1>3 DEF Injection
  <2> QED BY <1>4, <2>1, FS_Injection DEF n
<1>6. Range(s) = S
  BY <1>5 DEF Surjection, Range
<1>7. s \in Seq(S)
  BY <1>1, <1>3, SeqDef
<1> QED BY <1>6, <1>7 DEF s

LEMMA MergedLines ==
  ASSUME NEW c, IsFile(c), NEW rec
  PROVE  LET after == Merged(c, rec)
         IN  /\ IsFile(after) /\ Resolve(after, rec.domain) = rec.ip
             /\ \A e : /\ e # rec.domain /\ ~Nobody(c.lines, e)
                       /\ ~Entangled("multi", c, e, rec.domain)
                       => Resolve(after, e) = Resolve(c, e)
<1> DEFINE R == Range(c.lines)
           N == Len(c.lines)
           spots(n) == {i \in DOMAIN c.lines : c.lines[i].names[1] = n}
           names == {l.names[1] : l \in R} \cup {rec.domain}
           Of(n) == Line([ip |-> IF n = rec.domain THEN rec.ip ELSE c.lines[Max(spots(n))].ip,
                          domain |-> n])
           L == {Of(n) : n \in names}
           lines == SetToSeq(L)
           after == Merged(c, rec)
<1>1. /\ c.lines \in Seq(R) /\ \A l \in R : IsLine(l)
      /\ DOMAIN c.lines = 1..N /\ N \in Nat /\ \A i \in 1..N : c.lines[i] \in R
  BY FileLines
<1>2. after = File(lines, FALSE)
  BY DEF Merged
<1>3. ASSUME NEW n
      PROVE  /\ IsLine(Of(n)) /\ \A e : Names(Of(n), e) <=> e = n
             /\ Of(n).ip = IF n = rec.domain THEN rec.ip ELSE c.lines[Max(spots(n))].ip
  <2> DEFINE own == [ip |-> IF n = rec.domain THEN rec.ip ELSE c.lines[Max(spots(n))].ip,
                     domain |-> n]
  <2>1. own.domain = n /\ own.ip = IF n = rec.domain THEN rec.ip ELSE c.lines[Max(spots(n))].ip
    OBVIOUS
  <2>2. Of(n) = Line(own)
    OBVIOUS
  <2> HIDE DEF own, Of
  <2> QED BY <2>1, <2>2, NewLine
<1> HIDE DEF Of
<1>4. IsFiniteSet(L)
  <2>1. IsFiniteSet(R)
    <3>1. c.lines \in Surjection(1..N, R)
      BY <1>1 DEF Surjection, Range
    <3>2. IsFiniteSet(1..N)
      BY <1>1, FS_Interval
    <3> HIDE DEF R, N
    <3> QED BY <3>1, <3>2, FS_Surjection
  <2>2. IsFiniteSet({l.names[1] : l \in R})
    <3> DEFINE f == [l \in R |-> l.names[1]]
    <3>1. f \in Surjection(R, {l.names[1] : l \in R})
      BY DEF Surjection
    <3> HIDE DEF f
    <3> QED BY <2>1, <3>1, FS_Surjection
  <2>3. IsFiniteSet(names)
    BY <2>2, FS_AddElement
  <2> HIDE DEF names
  <2> DEFINE f == [n \in names |-> Of(n)]
  <2>4. f \in Surjection(names, L)
    BY DEF Surjection
  <2> HIDE DEF f, L
  <2> QED BY <2>3, <2>4, FS_Surjection
<1>5. lines \in Seq(L) /\ Range(lines) = L
  <2> HIDE DEF L
  <2> QED BY <1>4, OrderOf
<1>6. \A l \in L : IsLine(l)
  <2> SUFFICES ASSUME NEW n \in names PROVE IsLine(Of(n))
    OBVIOUS
  <2> QED BY <1>3
<1> HIDE DEF lines, after
<1>7. IsFile(after) /\ after.lines = lines
  <2> HIDE DEF L
  <2> QED BY <1>2, <1>5, <1>6, OfLines
<1>8. ASSUME NEW n \in names PROVE Resolve(after, n) = Of(n).ip
  <2>1. ~Nobody(lines, n)
    <3>1. Of(n) \in Range(lines) /\ Names(Of(n), n)
      BY <1>3, <1>5
    <3> QED BY <3>1 DEF Range, Nobody
  <2>2. PICK x : First(lines, n, x)
    <3> HIDE DEF L
    <3> QED BY <1>5, <1>7, <2>1, FirstResolves
  <2>3. x \in L /\ Names(x, n)
    BY <1>5, <2>2 DEF First, Range
  <2>4. x = Of(n)
    <3>1. PICK m \in names : x = Of(m)
      BY <2>3
    <3>2. Names(Of(m), n) <=> n = m
      BY <1>3
    <3> QED BY <2>3, <3>1, <3>2
  <2>5. Resolve(after, n) = x.ip
    <3> HIDE DEF L
    <3> QED BY <1>5, <1>7, <2>2, FirstResolves
  <2> QED BY <2>4, <2>5
<1>9. Resolve(after, rec.domain) = rec.ip
  <2>1. rec.domain \in names
    OBVIOUS
  <2> HIDE DEF names
  <2> QED BY <1>3, <1>8, <2>1
<1>10. ASSUME NEW e, e # rec.domain, ~Nobody(c.lines, e),
              ~Entangled("multi", c, e, rec.domain)
       PROVE  Resolve(after, e) = Resolve(c, e)
  <2> DEFINE hits == {i \in DOMAIN c.lines : Names(c.lines[i], e)}
  <2>1. \A l \in R : Names(l, e) => l.names[1] = e
    BY <1>10 DEF Entangled
  <2>2. ~(Cardinality(hits) > 1)
    BY <1>10 DEF Entangled
  <2>3. PICK x : First(c.lines, e, x)
    <3> HIDE DEF R
    <3> QED BY <1>1, <1>10, FirstResolves
  <2>4. PICK i \in hits : c.lines[i] = x
    BY <2>3 DEF First
  <2>5. \A j \in hits : j = i
    <3> SUFFICES ASSUME NEW j \in hits, j # i PROVE Cardinality(hits) > 1
      BY <2>2
    <3>1. IsFiniteSet(hits)
      <4>1. IsFiniteSet(1..N)
        BY <1>1, FS_Interval
      <4> QED BY <1>1, <4>1, FS_Subset
    <3> HIDE DEF hits
    <3>2. Cardinality({i, j}) = 2
      <4>1. Cardinality({i}) = 1 /\ IsFiniteSet({i})
        BY FS_Singleton
      <4>2. Cardinality({i} \cup {j}) = Cardinality({i}) + 1
        BY <4>1, FS_AddElement
      <4>3. {i} \cup {j} = {i, j}
        OBVIOUS
      <4> QED BY <4>1, <4>2, <4>3
    <3>3. Cardinality({i, j}) <= Cardinality(hits) /\ Cardinality(hits) \in Nat
      BY <3>1, FS_Subset, FS_CardinalityType
    <3> QED BY <3>2, <3>3
  <2>6. \A l \in R : l.names[1] = e => Names(l, e)
    <3> SUFFICES ASSUME NEW l \in R, l.names[1] = e PROVE Names(l, e)
      OBVIOUS
    <3>1. l.names # <<>> /\ l.names \in Seq(Range(l.names))
      BY <1>1 DEF IsLine
    <3>2. l.names[1] \in Range(l.names)
      BY <3>1
    <3> QED BY <3>2 DEF Names
  <2>7. spots(e) = {i}
    BY <1>1, <2>1, <2>4, <2>5, <2>6
  <2>8. Max(spots(e)) = i
    <3>1. i \in Nat
      BY <1>1, <2>4
    <3>2. Max({i}) = i
      BY <3>1 DEF Max
    <3> HIDE DEF spots
    <3> QED BY <2>7, <3>2
  <2>9. e \in names
    BY <1>1, <2>1, <2>4
  <2>10. Resolve(after, e) = c.lines[Max(spots(e))].ip
    <3> HIDE DEF names, spots
    <3> QED BY <1>3, <1>8, <1>10, <2>9
  <2>11. Resolve(c, e) = x.ip
    <3> HIDE DEF R
    <3> QED BY <1>1, <2>3, FirstResolves
  <2> HIDE DEF spots
  <2> QED BY <2>4, <2>8, <2>10, <2>11
<1> QED BY <1>7, <1>9, <1>10 DEF after

LEMMA MergedKeeps ==
  ASSUME NEW c, IsFile(c), NEW rec, NEW e, e # rec.domain, ~Nobody(c.lines, e),
         ~Entangled("multi", c, e, rec.domain)
  PROVE  Resolve(Merged(c, rec), e) = Resolve(c, e)
BY MergedLines

----------------------------------------------------------------------------
(* The requests that work on /etc/hosts.                                   *)

FilesTypeOK ==
  /\ IsFile(hosts) /\ (tmp = None \/ IsFile(tmp))
  /\ DOMAIN content = FileRequest /\ DOMAIN edit = FileRequest
  /\ \A r \in FileRequest :
       /\ content[r] = None \/ IsFile(content[r])
       /\ pc[r] \in {"rename", "tmp", "tmp writes", "cp", "cp writes", "tee", "tee writes"} =>
            IsFile(edit[r])
       /\ pc[r] = "cp writes" => IsFile(tmp)

(* Every method has its own places.                                        *)
OwnMethod ==
  \A r \in FileRequest :
    /\ pc[r] \in {"sed", "rename", "append", "echo"} => kind[r] = "add"
    /\ pc[r] \in {"tmp", "tmp writes", "cp", "cp writes"} => kind[r] = "multi"
    /\ pc[r] \in {"tee", "tee writes"} => kind[r] = "update"
    /\ content[r] # None => kind[r] # "dns" /\ pc[r] \notin {"idle", "read"}
    /\ pc[r] \notin {"idle", "done"} => answer[r] # "ok"

(* How far a request has come that has been alone on the machine.          *)
AsFar ==
  \A r \in Active \ overlapped :
    LET c == content[r]
        d == record[r].domain
    IN  /\ pc[r] \in {"sed", "echo", "rename", "tmp", "tmp writes", "cp", "tee"} => hosts = c
        /\ pc[r] = "echo" => c.lines = <<>>
        /\ pc[r] = "rename" => edit[r] = WithoutDomain(c, d)
        /\ pc[r] = "append" => \/ hosts = c /\ edit[r] = None
                               \/ hosts = WithoutDomain(c, d) /\ edit[r] = WithoutDomain(c, d)
        /\ pc[r] \in {"tmp", "tmp writes", "cp", "cp writes"} => edit[r] = Merged(c, record[r])
        /\ pc[r] \in {"cp", "cp writes"} /\ onServer => tmp = edit[r]
        /\ pc[r] \in {"tee", "tee writes"} => edit[r] = Replaced(c, record[r])
        /\ pc[r] \in {"cp writes", "tee writes"} => hosts = Empty

(* As long as only AddHosts has been asked for.                            *)
OnlyAdds == \A r \in FileRequest : kind[r] \in {"none", "add", "dns"}

Bystander(e) ==
  \A r \in FileRequest : kind[r] = "add" =>
    /\ e # record[r].domain
    /\ ~Entangled("add", atFirst.hosts, e, record[r].domain)

(* The line a bystander resolved by at first is still the first it is on.  *)
StillFirst(file) ==
  /\ ~file.cut
  /\ \A l \in Range(atFirst.hosts.lines) : \A e \in Range(l.names) : Bystander(e) =>
       \E x \in Range(atFirst.hosts.lines) :
         First(atFirst.hosts.lines, e, x) /\ First(file.lines, e, x)

LinesStay ==
  OnlyAdds =>
    /\ (\A r \in FileRequest : kind[r] # "add") => hosts = atFirst.hosts
    /\ ~atFirst.hosts.cut => /\ StillFirst(hosts)
                             /\ \A r \in FileRequest : pc[r] = "rename" => StillFirst(edit[r])

Act(r) == \/ ReadHosts(r) \/ CommandError(r) \/ ConnectionLost(r)
          \/ AddHosts(r) \/ AddMultiHosts(r) \/ UpdateHostsFile(r)
          \/ UpdateResolvFile(r)

Moves(r) ==
  /\ pc[r] \notin {"idle", "done"} /\ pc'[r] # "idle"
  /\ \A q \in FileRequest \ {r} :
       /\ pc'[q] = pc[q] /\ answer'[q] = answer[q]
       /\ content'[q] = content[q] /\ edit'[q] = edit[q]
  /\ UNCHANGED <<onServer, kind, record, atFirst, overlapped>>
  /\ DOMAIN content' = FileRequest /\ DOMAIN edit' = FileRequest

(* Nothing but the request's own place, answer, reading and writing.       *)
LEMMA ActMoves ==
  ASSUME ResolvTypeOK, FilesTypeOK, NEW r \in FileRequest, Act(r)
  PROVE  Moves(r)
<1>1. pc[r] \notin {"idle", "done"} /\ UNCHANGED <<onServer, kind, record, atFirst, overlapped>>
  BY DEF Act, ReadHosts, CommandError, ConnectionLost, AddHosts, AddMultiHosts, UpdateHostsFile,
         UpdateResolvFile, SedReads, SedRenames, AppendEntry, EchoEntry, TruncateTmp, WriteTmp,
         CpTruncates, CpWrites, TeeTruncates, TeeWrites, ReadResolv, AppendResolv, asked
<1>2. \E l \in FilePlaces \ {"idle"} : pc' = [pc EXCEPT ![r] = l]
  <2>1. pc = [pc EXCEPT ![r] = pc[r]] /\ pc[r] \in FilePlaces \ {"idle"}
    BY <1>1 DEF ResolvTypeOK
  <2>2. CASE ReadHosts(r) \/ CommandError(r) \/ ConnectionLost(r)
    BY <2>1, <2>2 DEF ReadHosts, CommandError, ConnectionLost, Ends, Goto, FilePlaces
  <2>3. CASE AddHosts(r) \/ UpdateHostsFile(r) \/ UpdateResolvFile(r)
    BY <2>3 DEF AddHosts, UpdateHostsFile, UpdateResolvFile, SedReads, SedRenames, AppendEntry,
                EchoEntry, TeeTruncates, TeeWrites, ReadResolv, AppendResolv, Ends, Goto,
                FilePlaces
  <2>4. CASE AddMultiHosts(r)
    BY <2>4 DEF AddMultiHosts, TruncateTmp, WriteTmp, CpTruncates, CpWrites, Ends, Goto,
                FilePlaces
  <2> QED BY <2>2, <2>3, <2>4 DEF Act
<1>3. \E a : answer' = [answer EXCEPT ![r] = a]
  <2>1. answer = [answer EXCEPT ![r] = answer[r]]
    BY DEF ResolvTypeOK
  <2>2. ASSUME NEW o, Ends(r, o) PROVE \E a : answer' = [answer EXCEPT ![r] = a]
    BY <2>2 DEF Ends
  <2>3. CASE ReadHosts(r) \/ CommandError(r) \/ ConnectionLost(r)
    BY <2>1, <2>2, <2>3 DEF ReadHosts, CommandError, ConnectionLost
  <2>4. CASE AddHosts(r) \/ UpdateHostsFile(r) \/ UpdateResolvFile(r)
    BY <2>1, <2>2, <2>4
    DEF AddHosts, UpdateHostsFile, UpdateResolvFile, SedReads, SedRenames, AppendEntry,
        EchoEntry, TeeTruncates, TeeWrites, ReadResolv, AppendResolv
  <2>5. CASE AddMultiHosts(r)
    BY <2>1, <2>2, <2>5 DEF AddMultiHosts, TruncateTmp, WriteTmp, CpTruncates, CpWrites
  <2> QED BY <2>3, <2>4, <2>5 DEF Act
<1>4. content' = content \/ \E c : content' = [content EXCEPT ![r] = c]
  BY DEF Act, ReadHosts, CommandError, ConnectionLost, AddHosts, AddMultiHosts, UpdateHostsFile,
         UpdateResolvFile, SedReads, SedRenames, AppendEntry, EchoEntry, TruncateTmp, WriteTmp,
         CpTruncates, CpWrites, TeeTruncates, TeeWrites, ReadResolv, AppendResolv
<1>5. edit' = edit \/ \E c : edit' = [edit EXCEPT ![r] = c]
  BY DEF Act, ReadHosts, CommandError, ConnectionLost, AddHosts, AddMultiHosts, UpdateHostsFile,
         UpdateResolvFile, SedReads, SedRenames, AppendEntry, EchoEntry, TruncateTmp, WriteTmp,
         CpTruncates, CpWrites, TeeTruncates, TeeWrites, ReadResolv, AppendResolv
<1>6. /\ pc'[r] # "idle"
      /\ \A q \in FileRequest \ {r} : pc'[q] = pc[q] /\ answer'[q] = answer[q]
  BY <1>2, <1>3 DEF ResolvTypeOK
<1>7. /\ \A q \in FileRequest \ {r} : content'[q] = content[q] /\ edit'[q] = edit[q]
      /\ DOMAIN content' = FileRequest /\ DOMAIN edit' = FileRequest
  BY <1>4, <1>5 DEF FilesTypeOK
<1> QED BY <1>1, <1>6, <1>7 DEF Moves

(* What a request's step does, by where it is and where it goes.           *)
Goes(r, from, to) == pc[r] = from /\ pc'[r] = to /\ answer'[r] = answer[r]

Finishes(r, from, outcome) ==
  /\ pc[r] = from /\ pc'[r] = "done"
  /\ answer'[r] = IF answer[r] = "none" THEN outcome ELSE answer[r]

ReadingDeed(r) ==
  /\ content'[r] = hosts /\ hosts' = hosts /\ tmp' = tmp
  /\ \/ /\ kind[r] = "add" /\ edit'[r] = edit[r]
        /\ Goes(r, "read", IF hosts.lines = <<>> THEN "echo" ELSE "sed")
     \/ /\ kind[r] = "multi" /\ edit'[r] = Merged(hosts, record[r])
        /\ Goes(r, "read", "tmp")
     \/ /\ kind[r] = "update" /\ edit'[r] = Replaced(hosts, record[r])
        /\ Goes(r, "read", "tee")

(* The steps that leave both files alone.                                  *)
QuietDeed(r) ==
  /\ content'[r] = content[r] /\ hosts' = hosts /\ tmp' = tmp
  /\ \/ /\ edit'[r] = edit[r]
        /\ \/ \E from \in FilePlaces \ {"rename", "tmp writes"} :
                Finishes(r, from, "failed")
           \/ pc'[r] = pc[r] /\ answer'[r] = "failed"
           \/ kind[r] = "dns" /\ pc'[r] \in {"append dns", "done"} /\ content[r] = None
              /\ (pc'[r] # "done" => answer'[r] = answer[r])
     \/ edit'[r] = WithoutDomain(hosts, record[r].domain) /\ Goes(r, "sed", "rename")
     \/ edit'[r] = None /\ Goes(r, "rename", "append")

WritingDeed(r) ==
  /\ content'[r] = content[r] /\ edit'[r] = edit[r]
  /\ \/ /\ tmp' = tmp
        /\ \/ hosts' = edit[r] /\ Goes(r, "rename", "append")
           \/ /\ hosts' = Appended(hosts, Line(record[r]))
              /\ \/ Finishes(r, "append", "ok")
                 \/ Finishes(r, "echo", "ok") \/ Finishes(r, "echo", "failed")
           \/ hosts' = Empty /\ Goes(r, "tee", "tee writes")
           \/ hosts' = edit[r] /\ Finishes(r, "tee writes", "ok")
           \/ tmp # None /\ hosts' = Empty /\ Goes(r, "cp", "cp writes")
           \/ hosts' = tmp /\ Finishes(r, "cp writes", "ok")
     \/ /\ hosts' = hosts
        /\ \/ tmp' = (IF onServer THEN Empty ELSE tmp) /\ Goes(r, "tmp", "tmp writes")
           \/ tmp' = (IF onServer THEN edit[r] ELSE tmp) /\ Goes(r, "tmp writes", "cp")

LEMMA Deeds ==
  ASSUME ResolvTypeOK, OwnWay, FilesTypeOK, OwnMethod, NEW r \in FileRequest, Act(r)
  PROVE  ReadingDeed(r) \/ QuietDeed(r) \/ WritingDeed(r)
<1>1. pc[r] \in FilePlaces /\ DOMAIN pc = FileRequest /\ DOMAIN answer = FileRequest
      /\ DOMAIN content = FileRequest /\ DOMAIN edit = FileRequest
  BY DEF ResolvTypeOK, FilesTypeOK
<1>2. ASSUME NEW l, Goto(r, l) PROVE pc'[r] = l
  BY <1>1, <1>2 DEF Goto
<1>3. ASSUME NEW o, Ends(r, o)
      PROVE  pc'[r] = "done" /\ answer'[r] = IF answer[r] = "none" THEN o ELSE answer[r]
  BY <1>1, <1>2, <1>3 DEF Ends
<1>4. ASSUME NEW o, Ends(r, o) PROVE Finishes(r, pc[r], o)
  BY <1>3, <1>4 DEF Finishes
<1>5. ASSUME NEW l, Goto(r, l), answer' = answer PROVE Goes(r, pc[r], l)
  BY <1>2, <1>5 DEF Goes
<1>6. CASE ReadHosts(r)
  <2>1. /\ content'[r] = hosts /\ hosts' = hosts /\ tmp' = tmp /\ answer' = answer
        /\ pc[r] = "read"
    BY <1>1, <1>6 DEF ReadHosts
  <2>2. \/ kind[r] = "add" /\ edit' = edit /\ Goto(r, IF hosts.lines = <<>> THEN "echo" ELSE "sed")
        \/ kind[r] = "multi" /\ edit' = [edit EXCEPT ![r] = Merged(hosts, record[r])]
           /\ Goto(r, "tmp")
        \/ kind[r] = "update" /\ edit' = [edit EXCEPT ![r] = Replaced(hosts, record[r])]
           /\ Goto(r, "tee")
    BY <1>6 DEF ReadHosts
  <2>3. \/ kind[r] = "add" /\ edit'[r] = edit[r]
           /\ Goes(r, "read", IF hosts.lines = <<>> THEN "echo" ELSE "sed")
        \/ kind[r] = "multi" /\ edit'[r] = Merged(hosts, record[r]) /\ Goes(r, "read", "tmp")
        \/ kind[r] = "update" /\ edit'[r] = Replaced(hosts, record[r]) /\ Goes(r, "read", "tee")
    BY <1>1, <1>5, <2>1, <2>2
  <2> QED BY <2>1, <2>3 DEF ReadingDeed
<1>7. CASE CommandError(r)
  BY <1>1, <1>4, <1>7 DEF CommandError, QuietDeed
<1>8. CASE ConnectionLost(r)
  BY <1>1, <1>8 DEF ConnectionLost, QuietDeed
<1>9. CASE AddHosts(r)
  <2>1. CASE SedReads(r)
    BY <1>1, <1>5, <2>1 DEF SedReads, QuietDeed
  <2>2. CASE SedRenames(r)
    <3>1. Goes(r, "rename", "append") /\ content' = content /\ tmp' = tmp
      BY <1>5, <2>2 DEF SedRenames
    <3>2. \/ hosts' = edit[r] /\ edit' = edit
          \/ hosts' = hosts /\ edit'[r] = None
      BY <1>1, <2>2 DEF SedRenames
    <3> QED BY <3>1, <3>2 DEF QuietDeed, WritingDeed
  <2>3. CASE AppendEntry(r)
    <3>1. content' = content /\ tmp' = tmp /\ edit' = edit /\ pc[r] = "append"
      BY <2>3 DEF AppendEntry
    <3>2. \/ hosts' = Appended(hosts, Line(record[r])) /\ Finishes(r, "append", "ok")
          \/ hosts' = hosts /\ Finishes(r, "append", "failed")
      BY <1>4, <2>3 DEF AppendEntry
    <3> QED BY <3>1, <3>2 DEF QuietDeed, WritingDeed, FilePlaces
  <2>4. CASE EchoEntry(r)
    <3>1. content' = content /\ tmp' = tmp /\ edit' = edit /\ pc[r] = "echo"
      BY <2>4 DEF EchoEntry
    <3>2. \/ /\ hosts' = Appended(hosts, Line(record[r]))
             /\ Finishes(r, "echo", "ok") \/ Finishes(r, "echo", "failed")
          \/ hosts' = hosts /\ Finishes(r, "echo", "failed")
      BY <1>4, <2>4 DEF EchoEntry
    <3> QED BY <3>1, <3>2 DEF QuietDeed, WritingDeed, FilePlaces
  <2> QED BY <1>9, <2>1, <2>2, <2>3, <2>4 DEF AddHosts
<1>10. CASE AddMultiHosts(r)
  <2>1. CASE TruncateTmp(r)
    BY <1>5, <2>1 DEF TruncateTmp, WritingDeed
  <2>2. CASE WriteTmp(r)
    BY <1>5, <2>2 DEF WriteTmp, WritingDeed
  <2>3. CASE CpTruncates(r)
    <3>1. content' = content /\ tmp' = tmp /\ edit' = edit /\ pc[r] = "cp"
      BY <2>3 DEF CpTruncates
    <3>2. \/ hosts' = hosts /\ Finishes(r, "cp", "failed")
          \/ tmp # None /\ hosts' = Empty /\ Goes(r, "cp", "cp writes")
      BY <1>4, <1>5, <2>3 DEF CpTruncates
    <3> QED BY <3>1, <3>2 DEF QuietDeed, WritingDeed, FilePlaces
  <2>4. CASE CpWrites(r)
    <3>1. content' = content /\ tmp' = tmp /\ edit' = edit /\ pc[r] = "cp writes"
      BY <2>4 DEF CpWrites
    <3>2. \/ hosts' = tmp /\ Finishes(r, "cp writes", "ok")
          \/ hosts' = hosts /\ Finishes(r, "cp writes", "failed")
      BY <1>4, <2>4 DEF CpWrites
    <3> QED BY <3>1, <3>2 DEF QuietDeed, WritingDeed, FilePlaces
  <2> QED BY <1>10, <2>1, <2>2, <2>3, <2>4 DEF AddMultiHosts
<1>11. CASE UpdateHostsFile(r)
  <2>1. CASE TeeTruncates(r)
    BY <1>5, <2>1 DEF TeeTruncates, WritingDeed
  <2>2. CASE TeeWrites(r)
    <3>1. content' = content /\ tmp' = tmp /\ edit' = edit /\ pc[r] = "tee writes"
      BY <2>2 DEF TeeWrites
    <3>2. \/ hosts' = edit[r] /\ Finishes(r, "tee writes", "ok")
          \/ hosts' = hosts /\ Finishes(r, "tee writes", "failed")
      BY <1>4, <2>2 DEF TeeWrites
    <3> QED BY <3>1, <3>2 DEF QuietDeed, WritingDeed, FilePlaces
  <2> QED BY <1>11, <2>1, <2>2 DEF UpdateHostsFile
<1>12. CASE UpdateResolvFile(r)
  <2>1. /\ kind[r] = "dns" /\ content' = content /\ edit' = edit /\ hosts' = hosts /\ tmp' = tmp
    BY <1>12 DEF UpdateResolvFile, ReadResolv, AppendResolv, OwnWay
  <2>2. /\ pc'[r] \in {"append dns", "done"}
        /\ pc'[r] # "done" => answer'[r] = answer[r]
    <3>1. CASE \E o \in {"ok", "failed"} : Ends(r, o)
      BY <1>3, <3>1
    <3>2. CASE Goto(r, "append dns") /\ answer' = answer
      BY <1>2, <3>2
    <3> QED BY <1>12, <3>1, <3>2 DEF UpdateResolvFile, ReadResolv, AppendResolv
  <2>3. content[r] = None
    BY <2>1 DEF OwnMethod
  <2> QED BY <2>1, <2>2, <2>3 DEF QuietDeed
<1> QED BY <1>6, <1>7, <1>8, <1>9, <1>10, <1>11, <1>12 DEF Act

LEMMA EmptyIsFile == IsFile(Empty)
<1>1. Empty.lines = <<>> /\ Empty.cut = FALSE /\ Empty = File(<<>>, FALSE)
  BY DEF Empty, File
<1>2. Range(<<>>) = {}
  BY DEF Range
<1> QED BY <1>1, <1>2 DEF IsFile, File

(* The files are files.                                                    *)
LEMMA FilesTyped ==
  ASSUME ResolvTypeOK, OwnWay, FilesTypeOK, OwnMethod, NEW r \in FileRequest, Act(r)
  PROVE  FilesTypeOK'
<1>1. Moves(r) /\ (ReadingDeed(r) \/ QuietDeed(r) \/ WritingDeed(r))
  BY ActMoves, Deeds
<1>2. IsFile(hosts) /\ (tmp = None \/ IsFile(tmp)) /\ IsFile(Empty)
  <2>1. IsFile(Empty)
    BY EmptyIsFile
  <2> QED BY <2>1 DEF FilesTypeOK
<1>3. IsLine(Line(record[r]))
  BY NewLine
<1>4. IsFile(Appended(hosts, Line(record[r])))
  <2>1. CASE hosts.cut
    BY <1>2, <1>3, <2>1, GluedLine
  <2>2. CASE ~hosts.cut
    BY <1>2, <1>3, <2>2, AppendedLine
  <2> QED BY <2>1, <2>2
<1>5. /\ IsFile(Merged(hosts, record[r])) /\ IsFile(Replaced(hosts, record[r]))
      /\ IsFile(WithoutDomain(hosts, record[r].domain))
  BY <1>2, MergedLines, ReplacedLines, WithoutLines
<1>6. /\ content[r] = None \/ IsFile(content[r])
      /\ pc[r] \in {"rename", "tmp", "tmp writes", "cp", "cp writes", "tee", "tee writes"} =>
           IsFile(edit[r])
      /\ pc[r] = "cp writes" => IsFile(tmp)
  BY DEF FilesTypeOK
<1>7. IsFile(hosts') /\ (tmp' = None \/ IsFile(tmp')) /\ (IsFile(tmp) => IsFile(tmp'))
  <2>1. CASE ReadingDeed(r) \/ QuietDeed(r)
    BY <1>2, <2>1 DEF ReadingDeed, QuietDeed
  <2>2. CASE WritingDeed(r)
    BY <1>2, <1>4, <1>6, <2>2 DEF WritingDeed, Goes, Finishes
  <2> QED BY <1>1, <2>1, <2>2
<1>8. /\ content'[r] = None \/ IsFile(content'[r])
      /\ pc'[r] \in {"rename", "tmp", "tmp writes", "cp", "cp writes", "tee", "tee writes"} =>
           IsFile(edit'[r])
      /\ pc'[r] = "cp writes" => IsFile(tmp')
  <2>1. CASE ReadingDeed(r)
    BY <1>2, <1>5, <2>1 DEF ReadingDeed, Goes
  <2>2. CASE QuietDeed(r)
    BY <1>5, <1>6, <2>2 DEF QuietDeed, Goes, Finishes
  <2>3. CASE WritingDeed(r)
    BY <1>2, <1>6, <2>3 DEF WritingDeed, Goes, Finishes
  <2> QED BY <1>1, <2>1, <2>2, <2>3
<1>9. \A q \in FileRequest \ {r} :
        /\ pc'[q] = pc[q] /\ content'[q] = content[q] /\ edit'[q] = edit[q]
  BY <1>1 DEF Moves
<1>10. DOMAIN content' = FileRequest /\ DOMAIN edit' = FileRequest
  BY <1>1 DEF Moves
<1>11. ASSUME NEW q \in FileRequest \ {r}
       PROVE  /\ content'[q] = None \/ IsFile(content'[q])
              /\ pc'[q] \in {"rename", "tmp", "tmp writes", "cp", "cp writes", "tee", "tee writes"} =>
                   IsFile(edit'[q])
              /\ pc'[q] = "cp writes" => IsFile(tmp')
  BY <1>7, <1>9 DEF FilesTypeOK
<1> QED BY <1>7, <1>8, <1>10, <1>11 DEF FilesTypeOK

(* Each at its own places.                                                 *)
LEMMA MethodsStay ==
  ASSUME ResolvTypeOK, OwnWay, FilesTypeOK, OwnMethod, NEW r \in FileRequest, Act(r)
  PROVE  OwnMethod'
<1>1. Moves(r) /\ (ReadingDeed(r) \/ QuietDeed(r) \/ WritingDeed(r))
  BY ActMoves, Deeds
<1>2. /\ pc[r] \in {"sed", "rename", "append", "echo"} => kind[r] = "add"
      /\ pc[r] \in {"tmp", "tmp writes", "cp", "cp writes"} => kind[r] = "multi"
      /\ pc[r] \in {"tee", "tee writes"} => kind[r] = "update"
      /\ content[r] # None => kind[r] # "dns" /\ pc[r] \notin {"idle", "read"}
      /\ answer[r] # "ok" /\ pc[r] \notin {"idle", "done"} /\ pc[r] \in FilePlaces
      /\ content[r] # None \/ content[r] = None
      /\ kind'[r] = kind[r]
  BY <1>1 DEF OwnMethod, Moves, ResolvTypeOK
<1>3. /\ pc'[r] \in {"sed", "rename", "append", "echo"} => kind[r] = "add"
      /\ pc'[r] \in {"tmp", "tmp writes", "cp", "cp writes"} => kind[r] = "multi"
      /\ pc'[r] \in {"tee", "tee writes"} => kind[r] = "update"
      /\ content'[r] # None => kind[r] # "dns" /\ pc'[r] \notin {"idle", "read"}
      /\ pc'[r] \notin {"idle", "done"} => answer'[r] # "ok"
  <2>1. CASE ReadingDeed(r)
    BY <1>2, <2>1 DEF ReadingDeed, Goes
  <2>2. CASE QuietDeed(r)
    BY <1>2, <2>2 DEF QuietDeed, Goes, Finishes
  <2>3. CASE WritingDeed(r)
    BY <1>2, <2>3 DEF WritingDeed, Goes, Finishes
  <2> QED BY <1>1, <2>1, <2>2, <2>3
<1>4. \A q \in FileRequest \ {r} :
        pc'[q] = pc[q] /\ content'[q] = content[q] /\ answer'[q] = answer[q] /\ kind'[q] = kind[q]
  BY <1>1 DEF Moves
<1>5. ASSUME NEW q \in FileRequest
      PROVE  /\ pc'[q] \in {"sed", "rename", "append", "echo"} => kind'[q] = "add"
             /\ pc'[q] \in {"tmp", "tmp writes", "cp", "cp writes"} => kind'[q] = "multi"
             /\ pc'[q] \in {"tee", "tee writes"} => kind'[q] = "update"
             /\ content'[q] # None => kind'[q] # "dns" /\ pc'[q] \notin {"idle", "read"}
             /\ pc'[q] \notin {"idle", "done"} => answer'[q] # "ok"
  <2>1. CASE q = r
    BY <1>2, <1>3, <2>1
  <2>2. CASE q # r
    BY <1>4, <2>2 DEF OwnMethod
  <2> QED BY <2>1, <2>2
<1> QED BY <1>5 DEF OwnMethod

(* A request that is alone finds what it has left.                         *)
LEMMA ComesAsFar ==
  ASSUME ResolvTypeOK, OwnWay, AloneOrOverlapped, FilesTypeOK, OwnMethod, AsFar,
         NEW r \in FileRequest, Act(r)
  PROVE  AsFar'
<1>1. Moves(r) /\ (ReadingDeed(r) \/ QuietDeed(r) \/ WritingDeed(r))
  BY ActMoves, Deeds
<1>2. /\ r \in Active /\ overlapped' = overlapped /\ record' = record /\ onServer' = onServer
      /\ \A q \in FileRequest \ {r} : pc'[q] = pc[q]
  BY <1>1 DEF Moves, Active
<1>3. \A q \in Active' : q = r \/ q \in overlapped'
  BY <1>2 DEF Active, AloneOrOverlapped
<1> SUFFICES ASSUME r \in Active' \ overlapped'
             PROVE  LET c == content'[r]
                        d == record[r].domain
                    IN  /\ pc'[r] \in {"sed", "echo", "rename", "tmp", "tmp writes", "cp", "tee"}
                             => hosts' = c
                        /\ pc'[r] = "echo" => c.lines = <<>>
                        /\ pc'[r] = "rename" => edit'[r] = WithoutDomain(c, d)
                        /\ pc'[r] = "append" => \/ hosts' = c /\ edit'[r] = None
                                                \/ /\ hosts' = WithoutDomain(c, d)
                                                   /\ edit'[r] = WithoutDomain(c, d)
                        /\ pc'[r] \in {"tmp", "tmp writes", "cp", "cp writes"} =>
                             edit'[r] = Merged(c, record[r])
                        /\ pc'[r] \in {"cp", "cp writes"} /\ onServer => tmp' = edit'[r]
                        /\ pc'[r] \in {"tee", "tee writes"} => edit'[r] = Replaced(c, record[r])
                        /\ pc'[r] \in {"cp writes", "tee writes"} => hosts' = Empty
  BY <1>2, <1>3 DEF AsFar
<1> DEFINE c == content[r]
           d == record[r].domain
<1>4. /\ pc[r] \in {"sed", "echo", "rename", "tmp", "tmp writes", "cp", "tee"} => hosts = c
      /\ pc[r] = "echo" => c.lines = <<>>
      /\ pc[r] = "rename" => edit[r] = WithoutDomain(c, d)
      /\ pc[r] = "append" => \/ hosts = c /\ edit[r] = None
                             \/ hosts = WithoutDomain(c, d) /\ edit[r] = WithoutDomain(c, d)
      /\ pc[r] \in {"tmp", "tmp writes", "cp", "cp writes"} => edit[r] = Merged(c, record[r])
      /\ pc[r] \in {"cp", "cp writes"} /\ onServer => tmp = edit[r]
      /\ pc[r] \in {"tee", "tee writes"} => edit[r] = Replaced(c, record[r])
      /\ pc[r] \in {"cp writes", "tee writes"} => hosts = Empty
  BY <1>2 DEF AsFar
<1>5. pc'[r] \notin {"idle", "done"}
  BY DEF Active
<1>6. CASE ReadingDeed(r)
  BY <1>6 DEF ReadingDeed, Goes
<1>7. CASE QuietDeed(r)
  BY <1>4, <1>5, <1>7 DEF QuietDeed, Goes, Finishes
<1>8. CASE WritingDeed(r)
  BY <1>4, <1>5, <1>8 DEF WritingDeed, Goes, Finishes
<1> QED BY <1>1, <1>6, <1>7, <1>8

(* AddHosts leaves the bystanders' lines in their places.                  *)
LEMMA LinesKept ==
  ASSUME ResolvTypeOK, OwnWay, FilesTypeOK, OwnMethod, LinesStay,
         NEW r \in FileRequest, Act(r)
  PROVE  LinesStay'
<1>1. Moves(r) /\ (ReadingDeed(r) \/ QuietDeed(r) \/ WritingDeed(r))
  BY ActMoves, Deeds
<1>2. UNCHANGED <<kind, record, atFirst>>
  BY <1>1 DEF Moves
<1> SUFFICES ASSUME OnlyAdds
             PROVE  /\ (\A q \in FileRequest : kind[q] # "add") => hosts' = atFirst.hosts
                    /\ ~atFirst.hosts.cut =>
                         /\ StillFirst(hosts')
                         /\ \A q \in FileRequest : pc'[q] = "rename" => StillFirst(edit'[q])
  <2>1. OnlyAdds' <=> OnlyAdds
    BY <1>2 DEF OnlyAdds
  <2>2. \A f : StillFirst(f)' <=> StillFirst(f)
    BY <1>2 DEF StillFirst, Bystander
  <2> QED BY <1>2, <2>1, <2>2 DEF LinesStay
<1>3. hosts' # hosts => kind[r] = "add"
  BY <1>1 DEF ReadingDeed, QuietDeed, WritingDeed, Goes, Finishes, OwnMethod, OnlyAdds
<1>4. (\A q \in FileRequest : kind[q] # "add") => hosts' = atFirst.hosts
  BY <1>3 DEF LinesStay
<1> SUFFICES ASSUME ~atFirst.hosts.cut
             PROVE  /\ StillFirst(hosts')
                    /\ \A q \in FileRequest : pc'[q] = "rename" => StillFirst(edit'[q])
  BY <1>4
<1>5. StillFirst(hosts) /\ (pc[r] = "rename" => StillFirst(edit[r])) /\ IsFile(hosts)
  BY DEF LinesStay, FilesTypeOK
<1>6. StillFirst(Appended(hosts, Line(record[r])))
  <2> DEFINE after == Appended(hosts, Line(record[r]))
  <2>1. ~hosts.cut
    BY <1>5 DEF StillFirst
  <2>2. ~after.cut /\ \A e, x : First(hosts.lines, e, x) => First(after.lines, e, x)
    BY <1>5, <2>1, AppendedLine, NewLine
  <2> HIDE DEF after
  <2>3. StillFirst(after)
    BY <1>5, <2>2 DEF StillFirst
  <2> QED BY <2>3 DEF after
<1>7. kind[r] = "add" => StillFirst(WithoutDomain(hosts, record[r].domain))
  <2> SUFFICES ASSUME kind[r] = "add"
               PROVE  StillFirst(WithoutDomain(hosts, record[r].domain))
    OBVIOUS
  <2> DEFINE d == record[r].domain
             after == WithoutDomain(hosts, d)
  <2>1. ~hosts.cut
    BY <1>5 DEF StillFirst
  <2>2. /\ ~after.cut
        /\ \A e, x : First(hosts.lines, e, x) /\ ~EndsIn(x, d) => First(after.lines, e, x)
    BY <1>5, <2>1, WithoutLines
  <2> HIDE DEF after
  <2>3. ASSUME NEW l \in Range(atFirst.hosts.lines), NEW e \in Range(l.names), Bystander(e)
        PROVE  \E x \in Range(atFirst.hosts.lines) :
                 First(atFirst.hosts.lines, e, x) /\ First(after.lines, e, x)
    <3>1. PICK x \in Range(atFirst.hosts.lines) :
            First(atFirst.hosts.lines, e, x) /\ First(hosts.lines, e, x)
      BY <1>5, <2>3 DEF StillFirst
    <3>2. Names(x, e)
      BY <3>1 DEF First
    <3>3. ~Entangled("add", atFirst.hosts, e, d)
      BY <2>3 DEF Bystander
    <3>4. ~EndsIn(x, d)
      BY <3>2, <3>3 DEF Entangled
    <3> QED BY <2>2, <3>1, <3>4
  <2>4. StillFirst(after)
    BY <2>2, <2>3 DEF StillFirst
  <2> QED BY <2>4 DEF after
<1>8. StillFirst(hosts')
  BY <1>1, <1>5, <1>6 DEF ReadingDeed, QuietDeed, WritingDeed, Goes, Finishes, OwnMethod, OnlyAdds
<1>9. ASSUME pc'[r] = "rename" PROVE StillFirst(edit'[r])
  <2>1. CASE ReadingDeed(r) \/ WritingDeed(r)
    BY <1>9, <2>1 DEF ReadingDeed, WritingDeed, Goes, Finishes
  <2>2. CASE QuietDeed(r)
    <3>1. \/ edit'[r] = edit[r] /\ pc'[r] = pc[r]
          \/ edit'[r] = WithoutDomain(hosts, record[r].domain) /\ pc[r] = "sed"
      BY <1>9, <2>2 DEF QuietDeed, Goes, Finishes
    <3> QED BY <1>5, <1>7, <1>9, <3>1 DEF OwnMethod
  <2> QED BY <1>1, <2>1, <2>2
<1>10. \A q \in FileRequest \ {r} : pc'[q] = pc[q] /\ edit'[q] = edit[q]
  BY <1>1 DEF Moves
<1>11. ASSUME NEW q \in FileRequest \ {r}, pc'[q] = "rename" PROVE StillFirst(edit'[q])
  BY <1>10, <1>11 DEF LinesStay
<1> QED BY <1>8, <1>9, <1>11

FilesInv == ResolvInv /\ FilesTypeOK /\ OwnMethod /\ AsFar /\ LinesStay

LEMMA FilesInitInv == FilesInit => FilesInv
<1> SUFFICES ASSUME FilesInit PROVE FilesInv
  OBVIOUS
<1>1. IsFile(atFirst.hosts) /\ IsFile(Foreign) /\ hosts = atFirst.hosts
  BY HostFilesAssumption DEF FilesInit
<1>2. FilesTypeOK
  BY <1>1 DEF FilesInit, FilesTypeOK
<1>3. OwnMethod /\ AsFar
  BY DEF FilesInit, OwnMethod, AsFar, Active
<1>4. LinesStay
  <2> SUFFICES ASSUME ~atFirst.hosts.cut PROVE StillFirst(hosts)
    BY <1>1 DEF FilesInit, LinesStay
  <2> DEFINE lines == atFirst.hosts.lines
  <2> SUFFICES ASSUME NEW l \in Range(lines), NEW e \in Range(l.names)
               PROVE  \E x \in Range(lines) : First(lines, e, x)
    BY <1>1 DEF StillFirst
  <2>1. lines \in Seq(Range(lines)) /\ DOMAIN lines = 1..Len(lines)
    BY <1>1, FileLines
  <2>2. ~Nobody(lines, e)
    BY DEF Nobody, Names, Range
  <2>3. PICK x : First(lines, e, x)
    BY <1>1, <2>1, <2>2, FirstResolves
  <2> QED BY <2>3 DEF First, Range
<1> QED BY <1>2, <1>3, <1>4, ResolvInitInv DEF FilesInv

LEMMA BeginKeeps ==
  ASSUME FilesInv, NEW r \in FileRequest, Begin(r)
  PROVE  FilesInv'
<1> USE DEF FilesInv, ResolvInv
<1>1. /\ r \notin Active /\ kind[r] = "none" /\ pc'[r] = "read"
      /\ \A q \in FileRequest \ {r} :
           pc'[q] = pc[q] /\ kind'[q] = kind[q] /\ record'[q] = record[q]
      /\ overlapped \subseteq overlapped'
      /\ Active = {} \/ Active \cup {r} \subseteq overlapped'
      /\ UNCHANGED <<atFirst, answer>>
  BY Beginning
<1>2. UNCHANGED <<onServer, hosts, tmp, content, edit>> /\ pc[r] = "idle"
  BY DEF Begin
<1>3. FilesTypeOK'
  BY <1>1, <1>2 DEF FilesTypeOK
<1>4. OwnMethod'
  <2>1. content[r] = None /\ answer[r] # "ok"
    BY <1>2 DEF OwnMethod, OwnWay
  <2> QED BY <1>1, <1>2, <2>1 DEF OwnMethod
<1>5. AsFar'
  <2>1. \A q \in Active' \ overlapped' : q = r
    BY <1>1 DEF Active
  <2> QED BY <1>1, <2>1 DEF AsFar
<1>6. LinesStay'
  <2> SUFFICES ASSUME OnlyAdds'
               PROVE  /\ (\A q \in FileRequest : kind'[q] # "add") => hosts = atFirst.hosts
                      /\ ~atFirst.hosts.cut =>
                           /\ StillFirst(hosts)'
                           /\ \A q \in FileRequest : pc'[q] = "rename" => StillFirst(edit[q])'
    BY <1>1, <1>2 DEF LinesStay
  <2>1. OnlyAdds
    BY <1>1 DEF OnlyAdds
  <2>2. (\A q \in FileRequest : kind'[q] # "add") => \A q \in FileRequest : kind[q] # "add"
    BY <1>1
  <2>3. \A e : Bystander(e)' => Bystander(e)
    BY <1>1 DEF Bystander
  <2>4. \A q \in FileRequest : pc'[q] = "rename" => pc[q] = "rename"
    BY <1>1
  <2>5. StillFirst(hosts) => StillFirst(hosts)'
    BY <1>1, <1>2, <2>3 DEF StillFirst
  <2>6. \A q \in FileRequest : StillFirst(edit[q]) => StillFirst(edit[q])'
    BY <1>1, <1>2, <2>3 DEF StillFirst
  <2> QED BY <2>1, <2>2, <2>4, <2>5, <2>6 DEF LinesStay
<1>7. ResolvInv'
  BY ResolvInductive DEF FilesNext
<1> QED BY <1>3, <1>4, <1>5, <1>6, <1>7

LEMMA RebootKeeps == FilesInv /\ FilesReboot => FilesInv'
<1> SUFFICES ASSUME FilesInv, FilesReboot PROVE FilesInv'
  OBVIOUS
<1> USE DEF FilesInv, ResolvInv
<1>1. /\ UNCHANGED <<kind, record, atFirst, hosts, content, edit, overlapped>>
      /\ pc' = [r \in FileRequest |-> IF r \in Active THEN "done" ELSE pc[r]]
      /\ tmp' \in {tmp, None}
  BY DEF FilesReboot, asked
<1>2. \A r \in FileRequest : pc'[r] \in {"idle", "done"} /\ (pc'[r] = "idle" => pc[r] = "idle")
  BY <1>1 DEF Active
<1>3. FilesTypeOK' /\ OwnMethod' /\ AsFar'
  <2>1. \A r \in FileRequest : content[r] # None => kind[r] # "dns" /\ pc[r] \notin {"idle", "read"}
    BY DEF OwnMethod
  <2>2. FilesTypeOK'
    BY <1>1, <1>2 DEF FilesTypeOK
  <2>3. OwnMethod'
    BY <1>1, <1>2, <2>1 DEF OwnMethod
  <2>4. AsFar'
    BY <1>2 DEF AsFar, Active
  <2> QED BY <2>2, <2>3, <2>4
<1>4. LinesStay'
  <2>1. \A r \in FileRequest : pc'[r] # "rename"
    BY <1>2
  <2> QED BY <1>1, <2>1 DEF LinesStay, OnlyAdds, StillFirst, Bystander
<1>5. ResolvInv'
  BY ResolvInductive
<1> QED BY <1>3, <1>4, <1>5

LEMMA OtherKeeps == FilesInv /\ OtherMachine => FilesInv'
<1> SUFFICES ASSUME FilesInv, OtherMachine PROVE FilesInv'
  OBVIOUS
<1> USE DEF FilesInv, ResolvInv
<1>1. /\ UNCHANGED <<onServer, kind, record, atFirst, hosts, content, edit, pc, answer>>
      /\ tmp' = Foreign
      /\ overlapped' = overlapped \cup {r \in Active : kind[r] = "multi"}
  BY DEF OtherMachine, asked
<1>2. FilesTypeOK'
  BY <1>1, HostFilesAssumption DEF FilesTypeOK
<1>3. OwnMethod'
  BY <1>1 DEF OwnMethod
<1>4. AsFar'
  <2>1. \A r \in Active' \ overlapped' :
          r \in Active \ overlapped /\ pc[r] \notin {"cp", "cp writes"}
    BY <1>1 DEF OwnMethod, Active
  <2> QED BY <1>1, <2>1 DEF AsFar
<1>5. LinesStay'
  BY <1>1 DEF LinesStay, OnlyAdds, StillFirst, Bystander
<1>6. ResolvInv'
  BY ResolvInductive DEF FilesNext
<1> QED BY <1>2, <1>3, <1>4, <1>5, <1>6

LEMMA FilesInductive ==
  FilesInv /\ (FilesNext \/ FilesReboot \/ UNCHANGED fileVars) => FilesInv'
<1>1. ASSUME FilesInv, NEW r \in FileRequest, Act(r) PROVE FilesInv'
  <2>1. ResolvInv'
    BY <1>1, ResolvInductive DEF FilesNext, FilesInv, Act
  <2> QED BY <1>1, <2>1, FilesTyped, MethodsStay, ComesAsFar, LinesKept DEF FilesInv, ResolvInv
<1>2. ASSUME FilesInv, UNCHANGED fileVars PROVE FilesInv'
  <2>1. ResolvInv'
    BY <1>2, ResolvInductive DEF FilesInv
  <2>2. UNCHANGED <<onServer, kind, record, hosts, resolv, tmp, pc, content, edit, answer,
                    overlapped, atFirst>>
    BY <1>2 DEF fileVars, asked
  <2>3. FilesTypeOK' /\ OwnMethod'
    BY <1>2, <2>2 DEF FilesInv, FilesTypeOK, OwnMethod
  <2>4. AsFar'
    BY <1>2, <2>2 DEF FilesInv, AsFar, Active
  <2>5. LinesStay'
    BY <1>2, <2>2 DEF FilesInv, LinesStay, OnlyAdds, StillFirst, Bystander
  <2> QED BY <2>1, <2>3, <2>4, <2>5 DEF FilesInv
<1> QED BY <1>1, <1>2, BeginKeeps, RebootKeeps, OtherKeeps DEF FilesNext, Act

LEMMA FilesHold == Spec => []FilesInv
<1>1. Init => FilesInv
  BY FilesInitInv DEF Init
<1>2. FilesInv /\ [Next]_vars => FilesInv'
  BY PartsOf, FilesInductive
<1> QED BY <1>1, <1>2, PTL DEF Spec

(* Requests of AddHosts (pkg/utils/remote.go), which remove a name with    *)
(* sed and put it back with tee -a, may interleave and fail half-way, and  *)
(* the machine may reboot: a name that is in none of them, and on no line  *)
(* that sed, to which the dots of a domain stand for any character, takes  *)
(* for one that ends in one of theirs, resolves as it did before the first.*)
THEOREM OthersStay == Spec => []BystandersKept
<1>1. FilesInv => BystandersKept
  <2> SUFFICES ASSUME FilesInv, OnlyAdds,
                      NEW l \in Range(atFirst.hosts.lines), NEW e \in Range(l.names)
               PROVE  \/ \E r \in FileRequest : kind[r] = "add" /\
                           (e = record[r].domain
                            \/ Entangled("add", atFirst.hosts, e, record[r].domain))
                      \/ Resolve(hosts, e) = Resolve(atFirst.hosts, e)
    BY DEF BystandersKept, OnlyAdds
  <2> USE DEF FilesInv, ResolvInv
  <2> SUFFICES ASSUME Bystander(e) PROVE Resolve(hosts, e) = Resolve(atFirst.hosts, e)
    BY DEF Bystander
  <2>1. CASE \A r \in FileRequest : kind[r] # "add"
    BY <2>1 DEF LinesStay
  <2>2. CASE \E r \in FileRequest : kind[r] = "add"
    <3>1. ~atFirst.hosts.cut
      BY <2>2 DEF Bystander, Entangled
    <3>2. PICK x : First(atFirst.hosts.lines, e, x) /\ First(hosts.lines, e, x)
      BY <3>1 DEF LinesStay, StillFirst
    <3>3. IsFile(atFirst.hosts) /\ IsFile(hosts)
      BY HostFilesAssumption DEF ResolvTypeOK, FilesTypeOK
    <3>4. /\ atFirst.hosts.lines \in Seq(Range(atFirst.hosts.lines))
          /\ hosts.lines \in Seq(Range(hosts.lines))
      BY <3>3, FileLines
    <3> QED BY <3>2, <3>4, FirstResolves
  <2> QED BY <2>1, <2>2
<1> QED BY <1>1, FilesHold, PTL

LEMMA RebootsCounted == Spec => [](reboots \in Nat)
<1>1. Init => reboots \in Nat
  BY DEF Init, MachineInit
<1>2. reboots \in Nat /\ [Next]_vars => (reboots \in Nat)'
  BY DEF Next, vars, machine, Files, Disk, Service, Reboot, MachineReboots
<1> QED BY <1>1, <1>2, PTL DEF Spec

(* What a request that ends alone has made of the file it found.           *)
Outcome(r) ==
  LET c == content[r]
      d == record[r].domain
  IN  /\ IsFile(c)
      /\ \/ /\ answer'[r] # "ok"
            /\ hosts' = c \/ (kind[r] = "add" /\ hosts' = WithoutDomain(c, d))
         \/ /\ kind[r] = "add" /\ c.lines = <<>>
            /\ hosts' = Appended(c, Line(record[r]))
         \/ /\ kind[r] = "add" /\ edit[r] = None
            /\ hosts' = Appended(c, Line(record[r]))
         \/ /\ kind[r] = "add"
            /\ hosts' = Appended(WithoutDomain(c, d), Line(record[r]))
         \/ /\ pc[r] \in {"cp writes", "tee writes"}
            /\ hosts' = Empty /\ answer'[r] = "failed"
         \/ kind[r] = "multi" /\ hosts' = Merged(c, record[r])
         \/ kind[r] = "update" /\ hosts' = Replaced(c, record[r])

LEMMA Ending ==
  ASSUME FilesInv, NEW r \in FileRequest, FilesNext \/ (FilesReboot /\ kind[r] = "add"),
         pc[r] # "done", pc'[r] = "done", r \notin overlapped', content[r] # None,
         kind[r] = "multi" => onServer
  PROVE  Outcome(r)
<1> USE DEF FilesInv, ResolvInv
<1> DEFINE c == content[r]
           d == record[r].domain
<1>1. IsFile(c) /\ kind[r] # "dns" /\ pc[r] \notin {"idle", "read"} /\ r \in Active
  BY DEF FilesTypeOK, OwnMethod, Active
<1>2. kind[r] # "none"
  BY <1>1 DEF OwnWay
<1>3. answer[r] \in {"none", "failed"}
  BY <1>1 DEF OwnMethod, Active, ResolvTypeOK
<1>4. /\ overlapped \subseteq overlapped'
  <2>1. FilesNext => overlapped \subseteq overlapped'
    BY AskedStays
  <2> QED BY <2>1 DEF FilesReboot
<1>5. /\ pc[r] \in {"sed", "echo", "rename", "tmp", "tmp writes", "cp", "tee"} => hosts = c
      /\ pc[r] = "echo" => c.lines = <<>>
      /\ pc[r] = "append" => \/ hosts = c /\ edit[r] = None
                             \/ hosts = WithoutDomain(c, d) /\ edit[r] = WithoutDomain(c, d)
      /\ pc[r] \in {"tmp", "tmp writes", "cp", "cp writes"} => edit[r] = Merged(c, record[r])
      /\ pc[r] \in {"cp", "cp writes"} /\ onServer => tmp = edit[r]
      /\ pc[r] \in {"tee", "tee writes"} => edit[r] = Replaced(c, record[r])
      /\ pc[r] \in {"cp writes", "tee writes"} => hosts = Empty
  BY <1>1, <1>4 DEF AsFar
<1>6. /\ pc[r] \in {"sed", "rename", "append", "echo"} => kind[r] = "add"
      /\ pc[r] \in {"tmp", "tmp writes", "cp", "cp writes"} => kind[r] = "multi"
      /\ pc[r] \in {"tee", "tee writes"} => kind[r] = "update"
      /\ pc[r] = "append dns" => kind[r] = "dns"
      /\ pc[r] \in FilePlaces
  BY DEF OwnMethod, OwnWay, ResolvTypeOK
<1>7. CASE FilesReboot /\ kind[r] = "add"
  <2>1. hosts' = hosts
    BY <1>7 DEF FilesReboot
  <2>2. pc[r] \in {"sed", "rename", "append", "echo"}
    BY <1>1, <1>6, <1>7 DEF FilePlaces
  <2>3. answer'[r] # "ok"
    BY <1>3, <1>7 DEF FilesReboot
  <2> QED BY <1>1, <1>5, <1>7, <2>1, <2>2, <2>3 DEF Outcome
<1>8. CASE \E q \in FileRequest : Begin(q)
  <2>1. PICK q \in FileRequest : Begin(q)
    BY <1>8
  <2>2. q # r
    BY <1>1, <2>1 DEF Begin
  <2>3. pc'[r] = pc[r]
    BY <2>1, <2>2, Beginning
  <2> QED BY <2>3
<1>9. CASE OtherMachine
  BY <1>9 DEF OtherMachine
<1>10. CASE \E q \in FileRequest : Act(q)
  <2>1. PICK q \in FileRequest : Act(q)
    BY <1>10
  <2>2. q = r
    BY <2>1, ActMoves DEF Moves
  <2>3. ReadingDeed(r) \/ QuietDeed(r) \/ WritingDeed(r)
    BY <2>1, <2>2, Deeds
  <2>4. CASE ReadingDeed(r)
    BY <1>1, <2>4 DEF ReadingDeed, Goes
  <2>5. CASE QuietDeed(r)
    <3>1. hosts' = hosts /\ answer'[r] = "failed" /\ pc[r] # "rename"
      BY <1>1, <1>3, <2>5 DEF QuietDeed, Goes, Finishes
    <3>2. CASE pc[r] \in {"cp writes", "tee writes"}
      BY <1>1, <1>5, <3>1, <3>2 DEF Outcome
    <3>3. CASE pc[r] \notin {"cp writes", "tee writes"}
      BY <1>1, <1>5, <1>6, <3>1, <3>3 DEF Outcome, FilePlaces
    <3> QED BY <3>2, <3>3
  <2>6. CASE WritingDeed(r)
    <3>1. \/ hosts' = Appended(hosts, Line(record[r])) /\ pc[r] \in {"append", "echo"}
          \/ hosts' = edit[r] /\ pc[r] = "tee writes"
          \/ hosts' = tmp /\ pc[r] = "cp writes"
      BY <2>6 DEF WritingDeed, Goes, Finishes
    <3>2. CASE pc[r] = "append"
      BY <1>1, <1>5, <1>6, <3>1, <3>2 DEF Outcome
    <3>3. CASE pc[r] = "echo"
      BY <1>1, <1>5, <1>6, <3>1, <3>3 DEF Outcome
    <3>4. CASE pc[r] = "tee writes"
      BY <1>1, <1>5, <1>6, <3>1, <3>4 DEF Outcome
    <3>5. CASE pc[r] = "cp writes"
      BY <1>1, <1>5, <1>6, <3>1, <3>5 DEF Outcome
    <3> QED BY <3>1, <3>2, <3>3, <3>4, <3>5
  <2> QED BY <2>3, <2>4, <2>5, <2>6
<1> QED BY <1>7, <1>8, <1>9, <1>10 DEF FilesNext, Act

(* The /etc/hosts methods of pkg/utils/remote.go, alone on the machine: an *)
(* answer without an error means that the domain resolves as asked, but    *)
(* for lines that have it and that sed leaves; whatever the answer, the    *)
(* other names resolve as before, but for the lines that the methods do    *)
(* not tell from the domain's, and unless cp or tee failed, and said so,   *)
(* after it had emptied the file.                                          *)
THEOREM DoAsAsked == Spec => DoesAsAsked
<1>1. ASSUME FilesInv, reboots \in Nat, [Next]_vars
      PROVE  [\A r \in FileRequest :
       /\ pc[r] # "done" /\ pc'[r] = "done" /\ r \notin overlapped'
       /\ content[r] # None
       /\ kind[r] = "multi" => onServer
       /\ kind[r] # "add" => reboots' = reboots
       => LET d == record[r].domain
              before == content[r]
          IN  /\ answer'[r] = "ok" =>
                   \/ Resolve(hosts', d) = record[r].ip
                   \/ /\ kind[r] = "add"
                      /\ \/ before.cut
                         \/ \E l \in Range(before.lines) :
                              Names(l, d) /\ (edit[r] = None \/ ~EndsIn(l, d))
              /\ \/ /\ pc[r] \in {"cp writes", "tee writes"}
                    /\ hosts' = Empty /\ answer'[r] = "failed"
                 \/ \A l \in Range(before.lines) : \A e \in Range(l.names) \ {d} :
                      Entangled(kind[r], before, e, d)
                      \/ Resolve(hosts', e) = Resolve(before, e)
             ]_fileVars
  <2>0. SUFFICES ASSUME ~UNCHANGED fileVars, NEW r \in FileRequest,
                      pc[r] # "done", pc'[r] = "done", r \notin overlapped',
                      content[r] # None, (kind[r] = "multi" => onServer),
                      (kind[r] # "add" => reboots' = reboots)
               PROVE  /\ answer'[r] = "ok" =>
                           \/ Resolve(hosts', record[r].domain) = record[r].ip
                           \/ /\ kind[r] = "add"
                              /\ \/ content[r].cut
                                 \/ \E l \in Range(content[r].lines) :
                                      /\ Names(l, record[r].domain)
                                      /\ edit[r] = None \/ ~EndsIn(l, record[r].domain)
                      /\ \/ /\ pc[r] \in {"cp writes", "tee writes"}
                            /\ hosts' = Empty /\ answer'[r] = "failed"
                         \/ \A l \in Range(content[r].lines) :
                              \A e \in Range(l.names) \ {record[r].domain} :
                                Entangled(kind[r], content[r], e, record[r].domain)
                                \/ Resolve(hosts', e) = Resolve(content[r], e)
    OBVIOUS
  <2> DEFINE c == content[r]
             d == record[r].domain
  <2>1. FilesNext \/ (FilesReboot /\ reboots' # reboots)
    BY <1>1, <2>0 DEF Next, vars, Files, Disk, Service, Reboot, MachineReboots
  <2>2. Outcome(r)
    <3>1. FilesNext \/ (FilesReboot /\ kind[r] = "add")
      BY <2>0, <2>1
    <3> QED BY <1>1, <2>0, <3>1, Ending
  <2>3. IsFile(c)
    BY <2>2 DEF Outcome
  <2>4. ASSUME answer'[r] = "ok"
        PROVE  \/ Resolve(hosts', d) = record[r].ip
               \/ /\ kind[r] = "add"
                  /\ \/ c.cut
                     \/ \E l \in Range(c.lines) :
                          Names(l, d) /\ (edit[r] = None \/ ~EndsIn(l, d))
    <3>1. CASE kind[r] = "add"
      <4> SUFFICES ASSUME ~c.cut,
                          \A l \in Range(c.lines) :
                            Names(l, d) => edit[r] # None /\ EndsIn(l, d)
                   PROVE  Resolve(hosts', d) = record[r].ip
        BY <3>1
      <4>1. \/ c.lines = <<>> /\ hosts' = Appended(c, Line(record[r]))
            \/ edit[r] = None /\ hosts' = Appended(c, Line(record[r]))
            \/ hosts' = Appended(WithoutDomain(c, d), Line(record[r]))
        BY <2>2, <2>4, <3>1 DEF Outcome
      <4>2. c.lines = <<>> => \A l \in Range(c.lines) : ~Names(l, d)
        BY DEF Range
      <4>3. edit[r] = None => \A l \in Range(c.lines) : ~Names(l, d)
        OBVIOUS
      <4>4. \A l \in Range(c.lines) : Names(l, d) => EndsIn(l, d)
        OBVIOUS
      <4> HIDE DEF c
      <4>5. (\A l \in Range(c.lines) : ~Names(l, d)) =>
               Resolve(Appended(c, Line(record[r])), d) = record[r].ip
        BY <2>3, AddDoes
      <4>6. Resolve(Appended(WithoutDomain(c, d), Line(record[r])), d) = record[r].ip
        BY <2>3, <4>4, AddDoes
      <4> QED BY <4>1, <4>2, <4>3, <4>5, <4>6
    <3>2. CASE kind[r] = "multi"
      BY <2>2, <2>3, <2>4, <3>2, MergedLines DEF Outcome
    <3>3. CASE kind[r] = "update"
      BY <2>2, <2>3, <2>4, <3>3, ReplacedLines DEF Outcome
    <3> QED BY <2>2, <2>4, <3>1, <3>2, <3>3 DEF Outcome
  <2>5. ASSUME ~(pc[r] \in {"cp writes", "tee writes"} /\ hosts' = Empty /\ answer'[r] = "failed"),
               NEW l \in Range(c.lines), NEW e \in Range(l.names) \ {d},
               ~Entangled(kind[r], c, e, d)
        PROVE  Resolve(hosts', e) = Resolve(c, e)
    <3>1. ~Nobody(c.lines, e)
      BY DEF Nobody, Names, Range
    <3>2. CASE kind[r] = "add"
      <4>1. PICK file \in {c, WithoutDomain(c, d)} :
              hosts' \in {file, Appended(file, Line(record[r]))}
        BY <2>2, <2>5, <3>2 DEF Outcome
      <4>2. ~Entangled("add", c, e, d)
        BY <2>5, <3>2
      <4> HIDE DEF c
      <4> QED BY <2>3, <3>1, <4>1, <4>2, AddKeeps
    <3>3. CASE kind[r] = "multi"
      <4>1. hosts' \in {c, Merged(c, record[r])} /\ ~Entangled("multi", c, e, d) /\ e # d
        BY <2>2, <2>5, <3>3 DEF Outcome
      <4> HIDE DEF c
      <4> QED BY <2>3, <3>1, <4>1, MergedKeeps
    <3>4. CASE kind[r] = "update"
      <4>1. hosts' \in {c, Replaced(c, record[r])} /\ ~Entangled("update", c, e, d) /\ e # d
        BY <2>2, <2>5, <3>4 DEF Outcome
      <4> HIDE DEF c
      <4> QED BY <2>3, <3>1, <4>1, ReplacedKeeps
    <3>5. kind[r] \in {"add", "multi", "update"} \/ hosts' = c
      BY <2>2, <2>5 DEF Outcome
    <3> QED BY <3>2, <3>3, <3>4, <3>5
  <2> QED BY <2>4, <2>5
<1> QED BY <1>1, FilesHold, RebootsCounted, PTL DEF Spec, DoesAsAsked

=============================================================================
