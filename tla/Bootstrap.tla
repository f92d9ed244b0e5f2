------------------------------ MODULE Bootstrap ------------------------------
(***************************************************************************)
(* internal/bootstrap/cloudconfig.go: the conversion of bootstrap data     *)
(* into the startup script of an instance, and what the script does when   *)
(* bash runs it (external: bash, useradd and the like).                    *)
(*                                                                         *)
(* A script is a sequence of commands and a length in bytes.  Left out:    *)
(* quoting, permissions, and the fields of a user that no other command    *)
(* depends on (gecos, home, shell, password, sudo).                        *)
(***************************************************************************)
EXTENDS Integers, SequencesExt

MaxScriptSize == 48 * 1024
compressThreshold == 24 * 1024

-----------------------------------------------------------------------------
(* Length.                                                                 *)

\* base64 without line breaks, of n bytes.
Base64Len(n) == 4 * ((n + 2) \div 3)

\* wrapBase64: lines of 76 characters, the last one not longer and never missing.
wrapBase64(len) == len + (IF len = 0 THEN 1 ELSE (len + 75) \div 76)

\* The text around the compressed script.
StubLen == 310

\* Mutant: the line breaks and the stub are not counted.
FitPacked(len, gz) ==
    IF len <= compressThreshold THEN len
    ELSE IF Base64Len(gz) <= MaxScriptSize THEN StubLen + wrapBase64(Base64Len(gz)) ELSE -1

\* fit: the length of what is shipped for a script of len bytes that gzip makes
\* gz bytes long, or -1 for ErrScriptTooLarge.
fit(len, gz) ==
    LET out == StubLen + wrapBase64(Base64Len(gz))
    IN  IF len <= compressThreshold THEN len ELSE IF out <= MaxScriptSize THEN out ELSE -1

-----------------------------------------------------------------------------
(* The commands of the script.                                             *)

isGzip(f) == f.encoding \in {"gz", "gz+b64"}

\* decodeContent knows the encoding, and base64 is well formed.
Decodable(f) == f.encoding \in {"", "b64", "gz", "gz+b64"} /\ (f.encoding \in {"b64", "gz+b64"} => f.valid)

\* Mutant: append is ignored.
WriteOver(f) ==
    <<[op |-> "write", path |-> f.path, text |-> f.text, gzip |-> isGzip(f), append |-> FALSE]>>

writeFileScript(f) ==
    <<[op |-> "write", path |-> f.path, text |-> f.text, gzip |-> isGzip(f), append |-> f.append]>>
    \o IF f.owner # "" THEN <<[op |-> "chown", owner |-> f.owner]>> ELSE <<>>

\* The owner and the group of the key file are both named like the user.
userScript(u) ==
    IF u.name = "" THEN <<>>
    ELSE (IF u.primaryGroup # "" THEN <<[op |-> "groupadd", group |-> u.primaryGroup]>> ELSE <<>>)
         \o <<[op |-> "useradd", name |-> u.name, gid |-> u.primaryGroup, groups |-> u.groups]>>
         \o IF u.keys THEN <<[op |-> "keys", name |-> u.name, group |-> u.name]>> ELSE <<>>

ntpScript(d) == IF d.ntp THEN <<[op |-> "ntp"]>> ELSE <<>>

Commands(cs) == [k \in DOMAIN cs |-> [op |-> "run", cmd |-> cs[k]]]

isCloudConfig(d) == d.header \in 1..3

Refused == [ok |-> FALSE, len |-> 0, body |-> <<>>]

\* ToStartupScript.  A shell script is passed on as it is.  YAML that cannot be parsed
\* is refused as well; the data here has been parsed.
ToStartupScript(d) ==
    LET body == Commands(d.bootcmd) \o FlattenSeq([k \in DOMAIN d.files |-> writeFileScript(d.files[k])])
                \o FlattenSeq([k \in DOMAIN d.users |-> userScript(d.users[k])]) \o ntpScript(d) \o Commands(d.runcmd)
        writable == \A k \in DOMAIN d.files : d.files[k].path # "" /\ Decodable(d.files[k])
    IN  IF d.shell THEN [ok |-> TRUE, len |-> d.len, body |-> Commands(d.runcmd)]
        ELSE IF isCloudConfig(d) /\ writable /\ fit(d.len, d.gz) # -1
        THEN [ok |-> TRUE, len |-> fit(d.len, d.gz), body |-> body]
        ELSE Refused

-----------------------------------------------------------------------------
(* What the script does (external).                                        *)

\* A host as the image leaves it: no files, and the user and group root.
NewHost == [ok |-> TRUE, files |-> <<>>, users |-> {[name |-> "root", group |-> "root"]},
            groups |-> {"root", "sudo"}, keys |-> {}, ntp |-> FALSE, ran |-> <<>>]

HasUser(h, n) == \E u \in h.users : u.name = n

\* useradd without --gid makes a group of the user's name.  A here-document after
\* a pipeline is the input of its last command: of gunzip, not of base64.
Fails(h, c) ==
    CASE c.op = "write" -> c.gzip
      [] c.op = "chown" -> ~HasUser(h, c.owner)
      [] c.op = "useradd" -> /\ ~HasUser(h, c.name)
                             /\ (IF c.gid = "" THEN c.name \in h.groups ELSE c.gid \notin h.groups)
                                \/ ~(c.groups \subseteq h.groups)
      [] c.op = "keys" -> ~HasUser(h, c.name) \/ c.group \notin h.groups
      [] OTHER -> FALSE

Effect(h, c) ==
    CASE c.op = "write" -> [h EXCEPT !.files = (IF c.append THEN @ ELSE SelectSeq(@, LAMBDA f : f.path # c.path))
                                               \o <<[path |-> c.path, text |-> c.text]>>]
      [] c.op = "groupadd" -> [h EXCEPT !.groups = @ \cup {c.group}]
      [] c.op = "useradd" ->
            IF HasUser(h, c.name) THEN h
            ELSE LET g == IF c.gid = "" THEN c.name ELSE c.gid
                 IN  [h EXCEPT !.users = @ \cup {[name |-> c.name, group |-> g]}, !.groups = @ \cup {g}]
      [] c.op = "keys" -> [h EXCEPT !.keys = @ \cup {c.name}]
      [] c.op = "ntp" -> [h EXCEPT !.ntp = TRUE]
      [] c.op = "run" -> [h EXCEPT !.ran = Append(@, c.cmd)]
      [] OTHER -> h

\* set -e: the first command that fails is the last.
Exec(h, c) == IF ~h.ok THEN h ELSE IF Fails(h, c) THEN [h EXCEPT !.ok = FALSE] ELSE Effect(h, c)

RunScript(body) == FoldLeft(Exec, NewHost, body)

-----------------------------------------------------------------------------
(* What the data asks for.                                                 *)

\* What is in file p in the end: the last text that is not appended and what is
\* appended after it.
Content(d, p) ==
    LET own == SelectSeq(d.files, LAMBDA f : f.path = p)
        starts == {k \in DOMAIN own : ~own[k].append}
        first == IF starts = {} THEN 1 ELSE CHOOSE k \in starts : \A j \in starts : j <= k
    IN  [k \in 1..(Len(own) - first + 1) |-> own[first + k - 1].text]

Written(h, p) == LET own == SelectSeq(h.files, LAMBDA f : f.path = p) IN [k \in DOMAIN own |-> own[k].text]

\* The host has the files, the users with their groups and keys, and has run
\* every command, those of runcmd last.
AsAsked(d, h) ==
    /\ h.ok
    /\ d.shell => h.ran = d.runcmd
    /\ ~d.shell =>
         /\ h.ran = d.bootcmd \o d.runcmd
         /\ h.ntp = d.ntp
         /\ \A k \in DOMAIN d.files : Written(h, d.files[k].path) = Content(d, d.files[k].path)
         /\ \A k \in DOMAIN d.users :
              LET u == d.users[k]
              IN  u.name # "" => /\ \E x \in h.users : x.name = u.name /\ (u.primaryGroup # "" => x.group = u.primaryGroup)
                                 /\ u.keys => u.name \in h.keys

\* The data does not ask for what useradd and install cannot do: a file of an owner
\* that is not there yet, the same user twice, or a group named like another user;
\* nor for supplementary groups the image does not have, which cloud-init would
\* create and userScript does not.
Sensible(d) ==
    /\ \A k \in DOMAIN d.files : d.files[k].owner \in {"", "root"}
    /\ \A k \in DOMAIN d.users :
          /\ d.users[k].groups \subseteq NewHost.groups
          /\ \A j \in DOMAIN d.users \ {k} : d.users[j].name \notin {d.users[k].name, d.users[k].primaryGroup}

\* Nor for what the script gets wrong: a file in gzip, and keys for a user whose
\* group is not named like them.
Plain(d) ==
    /\ Sensible(d)
    /\ \A k \in DOMAIN d.files : ~isGzip(d.files[k])
    /\ \A k \in DOMAIN d.users : d.users[k].keys => d.users[k].primaryGroup \in {"", d.users[k].name}

=============================================================================
