------------------------------- MODULE HostFiles -------------------------------
(***************************************************************************)
(* /etc/hosts and /etc/resolv.conf of one machine under AddHosts,          *)
(* AddMultiHosts, UpdateHostsFile and UpdateResolvFile of                  *)
(* pkg/utils/remote.go.                                                    *)
(*                                                                         *)
(* Each of them reads the file with one remote command and changes it with *)
(* another; the remote commands are themselves several steps on the file.  *)
(* A connection that breaks fails the request, but not the script that is  *)
(* running on the machine; a reboot ends both.                             *)
(***************************************************************************)
EXTENDS ManagedHost, FiniteSets, Sequences, SequencesExt

CONSTANTS
  FileRequest,
  Record,     (* the records requests may be about: [ip, domain]            *)
  Start,      (* what the files may hold at first: [hosts, resolv]          *)
  Foreign,    (* another machine's hosts file                               *)
  Within,     (* pairs of texts: the first is a part of the second          *)
  Matching    (* pairs of a line's names and a domain which, read as a      *)
              (* regular expression, matches the end of them as well        *)

(* A file is its lines and whether the last of them lacks its newline; a   *)
(* line of /etc/hosts is an address and the names it is given, with blanks *)
(* between them and nothing behind, or, if it is not spaced, with tabs.    *)
File(lines, cut) == [lines |-> lines, cut |-> cut]
Line(rec)        == [ip |-> rec.ip, names |-> <<rec.domain>>, spaced |-> TRUE]
Empty            == File(<<>>, FALSE)

HasText(text, part) == text = part \/ <<part, text>> \in Within

IsFile(file) ==
  /\ file \in [lines : Seq(Range(file.lines)), cut : BOOLEAN]
  /\ \A l \in Range(file.lines) : l.names # <<>> /\ l.names \in Seq(Range(l.names))
  /\ file.cut => file.lines # <<>>

ASSUME HostFilesAssumption ==
  /\ IsFiniteSet(FileRequest)
  /\ IsFile(Foreign)
  /\ \A f \in Start : IsFile(f.hosts) /\ f.resolv \in Seq(Range(f.resolv))
  /\ None \notin {f.hosts : f \in Start} \cup {Foreign, Empty}

VARIABLES
  onServer,   (* the machine is the server's own                            *)
  kind,       (* each request's method, once it has begun                   *)
  record,     (* and its record                                             *)
  hosts,      (* /etc/hosts                                                 *)
  resolv,     (* /etc/resolv.conf                                           *)
  tmp,        (* /tmp/hosts of the machine                                  *)
  pc,
  content,    (* what the request has read                                  *)
  edit,       (* what it, or its sed, is about to write                     *)
  answer,     (* "none", "ok", "failed"                                     *)
  overlapped, (* requests that were not alone on the machine                *)
  atFirst     (* both files as they were before the first request           *)

asked == <<onServer, kind, record, atFirst>>
fileVars == <<asked, hosts, resolv, tmp, pc, content, edit, answer, overlapped>>

Method == {"add", "multi", "update", "dns"}

FilesInit ==
  /\ onServer \in BOOLEAN
  /\ kind = [r \in FileRequest |-> "none"]
  /\ record = [r \in FileRequest |-> None]
  /\ atFirst \in Start
  /\ hosts = atFirst.hosts
  /\ resolv = atFirst.resolv
  /\ tmp \in {None, Foreign}
  /\ pc = [r \in FileRequest |-> "idle"]
  /\ content = [r \in FileRequest |-> None]
  /\ edit = [r \in FileRequest |-> None]
  /\ answer = [r \in FileRequest |-> "none"]
  /\ overlapped = {}

Active == {r \in FileRequest : pc[r] \notin {"idle", "done"}}

Goto(r, l) == pc' = [pc EXCEPT ![r] = l]

(* The last remote command has ended; its exit status is the answer, if    *)
(* the connection is still there.                                          *)
Ends(r, outcome) ==
  /\ Goto(r, "done")
  /\ answer' = [answer EXCEPT ![r] = IF @ = "none" THEN outcome ELSE @]

----------------------------------------------------------------------------
Names(line, d) == d \in Range(line.names)

(* What the resolver makes of the file: the first line that has the name.  *)
Resolve(file, d) ==
  LET hits == {i \in DOMAIN file.lines : Names(file.lines[i], d)}
  IN  IF hits = {} THEN None ELSE file.lines[Min(hits)].ip

(* sed goes through the lines and prints those it is to keep.              *)
Printed(lines, kept) ==
  LET output[n \in 0..Len(lines)] ==
        IF n = 0 THEN <<>>
        ELSE IF lines[n] \in kept THEN Append(output[n - 1], lines[n])
        ELSE output[n - 1]
  IN  output[Len(lines)]

(* /^.* domain$/: a blank and the domain end the line; the dots of the     *)
(* domain stand for any character.                                         *)
EndsIn(l, d) == l.spaced /\ (Last(l.names) = d \/ <<l.names, d>> \in Matching)

(* Mutant of WithoutDomain: no blank before the domain in the expression.  *)
WithoutSuffix(file, d) ==
  LET ends(l) == EndsIn(l, d) \/ HasText(Last(l.names), d)
  IN  File(Printed(file.lines, {l \in Range(file.lines) : ~ends(l)}),
           file.cut /\ ~ends(Last(file.lines)))

(* sed "/^.* domain$/d": the lines that end in the domain go.              *)
WithoutDomain(file, d) ==
  File(Printed(file.lines, {l \in Range(file.lines) : ~EndsIn(l, d)}),
       file.cut /\ ~EndsIn(Last(file.lines), d))

(* tee -a, >>: onto a line without newline the new one is glued.           *)
Appended(file, line) ==
  IF file.cut
    THEN File(Append(Front(file.lines),
           [ip     |-> Last(file.lines).ip,
            names  |-> Append(Front(Last(file.lines).names), "glued") \o line.names,
            spaced |-> line.spaced]),
           FALSE)
    ELSE [file EXCEPT !.lines = Append(@, line)]

(* domainMap: the first name of each line, its last address, and then the  *)
(* record.  The map has no order; it does not matter, since no two of the  *)
(* lines written have a name in common.                                    *)
Merged(file, rec) ==
  LET first == {l.names[1] : l \in Range(file.lines)} \cup {rec.domain}
      lastOf(d) == file.lines[Max({i \in DOMAIN file.lines :
                                     file.lines[i].names[1] = d})].ip
  IN  File(SetToSeq({Line([ip |-> IF d = rec.domain THEN rec.ip ELSE lastOf(d),
                           domain |-> d]) : d \in first}), FALSE)

(* UpdateHostsFile: every line in which the text of the domain occurs is   *)
(* replaced; a new line is joined to the others without a newline.         *)
Holds(line, d) == \E n \in Range(line.names) : HasText(n, d)

Replaced(file, rec) ==
  IF \E i \in DOMAIN file.lines : Holds(file.lines[i], rec.domain)
    THEN [file EXCEPT !.lines =
            [i \in DOMAIN @ |-> IF Holds(@[i], rec.domain) THEN Line(rec) ELSE @[i]]]
    ELSE File(Append(file.lines, Line(rec)), TRUE)

----------------------------------------------------------------------------
(* A request begins; requests that are under way at once have overlapped.  *)
Begin(r) ==
  /\ pc[r] = "idle"
  /\ \E k \in Method : kind' = [kind EXCEPT ![r] = k]
  /\ \E rec \in Record : record' = [record EXCEPT ![r] = rec]
  /\ Goto(r, "read")
  /\ overlapped' = overlapped \cup (IF Active = {} THEN {} ELSE Active \cup {r})
  /\ UNCHANGED <<onServer, atFirst, hosts, resolv, tmp, content, edit, answer>>

(* cat /etc/hosts                                                          *)
ReadHosts(r) ==
  /\ pc[r] = "read" /\ kind[r] # "dns"
  /\ content' = [content EXCEPT ![r] = hosts]
  /\ LET blank == hosts.lines = <<>>
     IN  \/ /\ kind[r] = "add" /\ Goto(r, IF blank THEN "echo" ELSE "sed")
            /\ UNCHANGED edit
         \/ /\ kind[r] = "multi" /\ Goto(r, "tmp")
            /\ edit' = [edit EXCEPT ![r] = Merged(hosts, record[r])]
         \/ /\ kind[r] = "update" /\ Goto(r, "tee")
            /\ edit' = [edit EXCEPT ![r] = Replaced(hosts, record[r])]
  /\ UNCHANGED <<asked, hosts, resolv, tmp, answer, overlapped>>

(* A remote command cannot be started, or os.WriteFile fails.              *)
CommandError(r) ==
  /\ pc[r] \in {"read", "sed", "echo", "tmp", "cp", "tee", "append dns"}
  /\ answer[r] = "none"
  /\ Ends(r, "failed")
  /\ UNCHANGED <<asked, hosts, resolv, tmp, content, edit, overlapped>>

(* The connection breaks: the request fails, the script goes on.           *)
ConnectionLost(r) ==
  /\ pc[r] \in {"rename", "append", "cp writes", "tee writes"}
  /\ answer[r] = "none"
  /\ answer' = [answer EXCEPT ![r] = "failed"]
  /\ UNCHANGED <<asked, hosts, resolv, tmp, pc, content, edit, overlapped>>

----------------------------------------------------------------------------
(* Mutant of SedReads: sed ... > /etc/hosts, emptied before sed reads it.  *)
SedOverItself(r) ==
  /\ pc[r] = "sed"
  /\ hosts' = Empty
  /\ edit' = [edit EXCEPT ![r] = Empty]
  /\ Goto(r, "rename")
  /\ UNCHANGED <<asked, resolv, tmp, content, answer, overlapped>>

(* AddHosts: sed -i reads the file and writes another one ...              *)
SedReads(r) ==
  /\ pc[r] = "sed"
  /\ edit' = [edit EXCEPT ![r] = WithoutDomain(hosts, record[r].domain)]
  /\ Goto(r, "rename")
  /\ UNCHANGED <<asked, hosts, resolv, tmp, content, answer, overlapped>>

(* ... which it puts in its place, or it fails, which goes unnoticed.      *)
SedRenames(r) ==
  /\ pc[r] = "rename"
  /\ \/ hosts' = edit[r] /\ UNCHANGED edit
     \/ UNCHANGED hosts /\ edit' = [edit EXCEPT ![r] = None]
  /\ Goto(r, "append")
  /\ UNCHANGED <<asked, resolv, tmp, content, answer, overlapped>>

(* sudo tee -a, whose exit status is that of the script.                   *)
AppendEntry(r) ==
  /\ pc[r] = "append"
  /\ \/ hosts' = Appended(hosts, Line(record[r])) /\ Ends(r, "ok")
     \/ UNCHANGED hosts /\ Ends(r, "failed")
  /\ UNCHANGED <<asked, resolv, tmp, content, edit, overlapped>>

(* The file was blank: sudo echo >> /etc/hosts, where the redirection is   *)
(* not sudo's but the login's; the reply may be lost.                      *)
EchoEntry(r) ==
  /\ pc[r] = "echo"
  /\ IF root
       THEN /\ hosts' = Appended(hosts, Line(record[r]))
            /\ \E outcome \in {"ok", "failed"} : Ends(r, outcome)
       ELSE UNCHANGED hosts /\ Ends(r, "failed")
  /\ UNCHANGED <<asked, resolv, tmp, content, edit, overlapped>>

----------------------------------------------------------------------------
(* AddMultiHosts: os.WriteFile("/tmp/hosts") on the server, which is the   *)
(* machine's file only if the machine is the server.                       *)
TruncateTmp(r) ==
  /\ pc[r] = "tmp"
  /\ tmp' = IF onServer THEN Empty ELSE tmp
  /\ Goto(r, "tmp writes")
  /\ UNCHANGED <<asked, hosts, resolv, content, edit, answer, overlapped>>

WriteTmp(r) ==
  /\ pc[r] = "tmp writes"
  /\ tmp' = IF onServer THEN edit[r] ELSE tmp
  /\ Goto(r, "cp")
  /\ UNCHANGED <<asked, hosts, resolv, content, edit, answer, overlapped>>

(* The same call, for another machine, writes the server's /tmp/hosts.     *)
OtherMachine ==
  /\ onServer /\ tmp # Foreign
  /\ LET multi == {r \in Active : kind[r] = "multi"}
     IN  multi # {} /\ overlapped' = overlapped \cup multi
  /\ tmp' = Foreign
  /\ UNCHANGED <<asked, hosts, resolv, pc, content, edit, answer>>

(* sudo cp /tmp/hosts /etc/hosts, on the machine.                          *)
CpTruncates(r) ==
  /\ pc[r] = "cp"
  /\ IF tmp = None
       THEN UNCHANGED hosts /\ Ends(r, "failed")
       ELSE hosts' = Empty /\ Goto(r, "cp writes") /\ UNCHANGED answer
  /\ UNCHANGED <<asked, resolv, tmp, content, edit, overlapped>>

(* The disk may be full; what is this short is written whole or not at all. *)
CpWrites(r) ==
  /\ pc[r] = "cp writes"
  /\ \/ hosts' = tmp /\ Ends(r, "ok")
     \/ UNCHANGED hosts /\ Ends(r, "failed")
  /\ UNCHANGED <<asked, resolv, tmp, content, edit, overlapped>>

----------------------------------------------------------------------------
(* UpdateHostsFile: echo -n | sudo tee /etc/hosts                          *)
TeeTruncates(r) ==
  /\ pc[r] = "tee"
  /\ hosts' = Empty
  /\ Goto(r, "tee writes")
  /\ UNCHANGED <<asked, resolv, tmp, content, edit, answer, overlapped>>

TeeWrites(r) ==
  /\ pc[r] = "tee writes"
  /\ \/ hosts' = edit[r] /\ Ends(r, "ok")
     \/ UNCHANGED hosts /\ Ends(r, "failed")
  /\ UNCHANGED <<asked, resolv, tmp, content, edit, overlapped>>

----------------------------------------------------------------------------
Nameserver(ip) == [ip |-> ip, comment |-> FALSE]

(* Mutant of Mentioned: the loop ends after its first line.                *)
FirstLineOnly(ip) == resolv # <<>> /\ HasText(Head(resolv).ip, ip)

(* strings.Contains(line, ip): a longer address or a comment will do.      *)
Mentioned(ip) == \E l \in Range(resolv) : HasText(l.ip, ip)

(* UpdateResolvFile: cat, then tee -a if the address is not there.         *)
ReadResolv(r) ==
  /\ pc[r] = "read" /\ kind[r] = "dns"
  /\ IF Mentioned(record[r].ip)
       THEN Ends(r, "ok")
       ELSE Goto(r, "append dns") /\ UNCHANGED answer
  /\ UNCHANGED <<asked, hosts, resolv, tmp, content, edit, overlapped>>

(* The reply may be lost though the line is written.                       *)
AppendResolv(r) ==
  /\ pc[r] = "append dns"
  /\ resolv' = Append(resolv, Nameserver(record[r].ip))
  /\ \E outcome \in {"ok", "failed"} : Ends(r, outcome)
  /\ UNCHANGED <<asked, hosts, tmp, content, edit, overlapped>>

----------------------------------------------------------------------------
AddHosts(r)      == SedReads(r) \/ SedRenames(r) \/ AppendEntry(r) \/ EchoEntry(r)
AddMultiHosts(r) == TruncateTmp(r) \/ WriteTmp(r) \/ CpTruncates(r) \/ CpWrites(r)
UpdateHostsFile(r)  == TeeTruncates(r) \/ TeeWrites(r)
UpdateResolvFile(r) == ReadResolv(r) \/ AppendResolv(r)

(* The machine goes down: files stay as they are, half-written ones too,   *)
(* but /tmp may be empty when it is up again.                              *)
FilesReboot ==
  /\ pc' = [r \in FileRequest |-> IF r \in Active THEN "done" ELSE pc[r]]
  /\ answer' = [r \in FileRequest |->
       IF r \in Active /\ answer[r] = "none" THEN "failed" ELSE answer[r]]
  /\ tmp' \in {tmp, None}
  /\ UNCHANGED <<asked, hosts, resolv, content, edit, overlapped>>

FilesNext ==
  \/ \E r \in FileRequest :
       \/ Begin(r) \/ ReadHosts(r) \/ CommandError(r) \/ ConnectionLost(r)
       \/ AddHosts(r) \/ AddMultiHosts(r) \/ UpdateHostsFile(r)
       \/ UpdateResolvFile(r)
  \/ OtherMachine

FilesSpec ==
  /\ MachineInit /\ FilesInit
  /\ [][\/ FilesNext /\ UNCHANGED machine
        \/ FilesReboot /\ MachineReboots]_<<machine, fileVars>>

----------------------------------------------------------------------------
(* Names whose lines the methods cannot tell from those of domain d.       *)
Entangled(k, file, e, d) ==
  LET lines == Range(file.lines)
  IN  CASE k = "add"    -> file.cut \/ \E l \in lines : Names(l, e) /\ EndsIn(l, d)
        [] k = "multi"  -> \/ \E l \in lines : Names(l, e) /\ l.names[1] # e
                           \/ Cardinality({i \in DOMAIN file.lines :
                                             Names(file.lines[i], e)}) > 1
        [] k = "update" -> \E l \in lines : Names(l, e) /\ Holds(l, d)
        [] OTHER        -> FALSE

(* A request that had the machine to itself does what it was asked for: if *)
(* it says so, its domain resolves to its address, and in any case other   *)
(* names resolve as before. The exceptions are the code's: AddHosts leaves *)
(* lines of the domain that sed does not take for ones ending in it (tabs, *)
(* aliases behind), or all if its sed fails, so that the script does not   *)
(* do what its comment says ("Remove all lines containing the hostname"),  *)
(* and takes other names along with those that sed does take for such, the *)
(* domain's own or not; AddMultiHosts drops aliases, and puts in place     *)
(* what the machine, if it is not the server, happens to have in           *)
(* /tmp/hosts; UpdateHostsFile takes lines that have the domain within     *)
(* another name, and leaves a cut line, to which the next AddHosts glues   *)
(* its own; and both of these may be stopped when they have emptied the    *)
(* file, by a reboot or by a full disk, of which the request tells no more *)
(* than that it failed.                                                    *)
DoesAsAsked ==
  [][\A r \in FileRequest :
       /\ pc[r] # "done" /\ pc'[r] = "done" /\ r \notin overlapped'
       /\ content[r] # None
       /\ kind[r] = "multi" => onServer
       /\ kind[r] # "add" => reboots' = reboots
       => LET d == record[r].domain
              before == content[r]
          IN  /\ answer'[r] = "ok" =>
                   \/ Resolve(hosts', d) = record[r].ip
                   \/ /\ kind[r] = "add"
                      /\ \/ before.cut
                         \/ \E l \in Range(before.lines) :
                              Names(l, d) /\ (edit[r] = None \/ ~EndsIn(l, d))
              /\ \/ /\ pc[r] \in {"cp writes", "tee writes"}
                    /\ hosts' = Empty /\ answer'[r] = "failed"
                 \/ \A l \in Range(before.lines) : \A e \in Range(l.names) \ {d} :
                      Entangled(kind[r], before, e, d)
                      \/ Resolve(hosts', e) = Resolve(before, e)
    ]_fileVars

(* The handlers only call AddHosts.  However its requests interleave, and  *)
(* whichever of them fail half-way, a name that is in none of them and on  *)
(* no line that sed takes for one ending in one of their domains always    *)
(* resolves as it did at first: the lines that races lose are those of the *)
(* requests, and those that look like theirs.                              *)
BystandersKept ==
  (\A r \in FileRequest : kind[r] \in {"none", "add", "dns"}) =>
    \A l \in Range(atFirst.hosts.lines) : \A e \in Range(l.names) :
      \/ \E r \in FileRequest : kind[r] = "add" /\
           LET d == record[r].domain IN e = d \/ Entangled("add", atFirst.hosts, e, d)
      \/ Resolve(hosts, e) = Resolve(atFirst.hosts, e)

ServerLines(file, ip) == Cardinality({i \in DOMAIN file : file[i] = Nameserver(ip)})

(* A request for a nameserver that succeeds leaves the address in the      *)
(* file, be it within another address or in a comment, and no number of    *)
(* requests for it, failed and repeated ones among them, lists it twice,   *)
(* unless two of them overlapped.                                          *)
NameserverOnce ==
  \A r \in FileRequest : kind[r] = "dns" =>
    LET ip   == record[r].ip
        same == {q \in FileRequest : kind[q] = "dns" /\ record[q].ip = ip}
    IN  /\ answer[r] = "ok" => Mentioned(ip)
        /\ \/ ServerLines(resolv, ip) <= 1
           \/ ServerLines(resolv, ip) = ServerLines(atFirst.resolv, ip)
           \/ Cardinality(same \cap overlapped) > 1
=============================================================================
