------------------------------- MODULE KeyFiles -------------------------------
(***************************************************************************)
(* Key files (internal/identity/keyfile.go, keygen.go) and the keygen, psk *)
(* and public-key commands on one path (cmd/red-mpudp/keys.go, main.go):   *)
(* processes at once, a step per system call, with failing calls, kills, a *)
(* power loss and an operator who replaces, opens up or removes the file.  *)
(*                                                                         *)
(* A process generates one key and may create one file, so p also names    *)
(* its key and its inode. A text is a sequence of kinds of characters.     *)
(***************************************************************************)
EXTENDS Naturals, Sequences

CONSTANTS
    Procs,        \* processes
    Operator,     \* the operator's key and file
    NoFile,
    KeyChars,     \* characters of an encoded key
    MaxKeyFaults  \* bound on failing calls, kills, power losses and operator steps

Inodes == Procs \cup {Operator}

ASSUME KeyAssumption ==
    /\ Operator \notin Procs
    /\ NoFile \notin Inodes
    /\ KeyChars \in Nat \ {0}
    /\ MaxKeyFaults \in Nat

VARIABLES
    name,      \* the inode the path names, or NoFile
    text,      \* per inode: its content
    mode,      \* per inode: who else has any permission
    stable,    \* inodes whose content is on stable storage
    pc,        \* per process: the next system call, or its exit code
    cmd,       \* per process: the subcommand
    fd,        \* per process: the inode it has open for reading, or NoFile
    out,       \* per process: the text whose public key it printed, or NoFile
    unnamed,   \* history: inodes the operator or a power loss took from the path
    keyFaults

files   == <<name, text, mode, stable>>
procs   == <<pc, cmd, fd, out>>
keyVars == <<files, procs, unnamed, keyFaults>>

-------------------------------------------------------------------------------
Key == [x \in 1 .. KeyChars |-> "b64"]

\* Encode: the key and a newline.
Encode == Append(Key, "nl")

Truncated(n) == SubSeq(Encode, 1, n)

\* What an operator may have put there: a key with a DOS line end, a padded one, or
\* one with a blank line after it.
OperatorTexts == {Key \o <<"cr", "nl">>, Append(Key, "pad"), Append(Encode, "nl")}

DropLast(t, c) == IF t # <<>> /\ t[Len(t)] = c THEN SubSeq(t, 1, Len(t) - 1) ELSE t

\* The text without its one optional line end; a "\r" goes with a "\n" only.
Body(raw) == IF DropLast(raw, "nl") = raw THEN raw
                                          ELSE DropLast(DropLast(raw, "nl"), "cr")

\* ParseKey succeeds: no white space or padding in the body, which decodes, and to
\* exactly the length of a key.
ParseKeyAnyLength(raw) ==   \* mutant: whatever decodes is a key
    /\ Body(raw) # <<>>
    /\ \A x \in 1 .. Len(Body(raw)) : Body(raw)[x] = "b64"

ParseKey(raw) ==
    /\ \A x \in 1 .. Len(Body(raw)) : Body(raw)[x] = "b64"
    /\ Len(Body(raw)) = KeyChars

-------------------------------------------------------------------------------
Others == {"group", "world"}

requirePrivatePerms(m) == m = {}

Commands == {"keygen", "psk", "public-key", "unknown"}

\* The subcommand, the number of arguments after it, and whether one of them is a
\* flag whose name suggests a secret.
CommandLines == [cmd : Commands, paths : 0 .. 2, flagged : BOOLEAN]

rejectSecretFlags(a) == a.flagged

singlePathArg(a) == a.paths = 1

Codes == {"ok", "usage", "permission", "runtime", "killed"}

Continue(p, l) == pc' = [pc EXCEPT ![p] = l]

KeyFault == keyFaults > 0 /\ keyFaults' = keyFaults - 1

KeyInit ==
    /\ name \in {NoFile, Operator}
    /\ text \in {[x \in Inodes |-> IF x = name THEN t ELSE <<>>] : t \in OperatorTexts}
    /\ mode = [x \in Inodes |-> {}]
    /\ stable = {Operator}
    /\ pc = [p \in Procs |-> "start"]
    /\ cmd = [p \in Procs |-> "unknown"]
    /\ fd = [p \in Procs |-> NoFile]
    /\ out = [p \in Procs |-> NoFile]
    /\ unnamed = {}
    /\ keyFaults = MaxKeyFaults

\* run: the command line is checked, then a key is generated. GeneratePrivateKey and
\* GeneratePSK fail closed when the CSPRNG does.
Start(p) ==
    /\ pc[p] = "start"
    /\ \E a \in CommandLines :
         \/ /\ rejectSecretFlags(a) \/ a.cmd = "unknown" \/ ~singlePathArg(a)
            /\ Continue(p, "usage")
            /\ UNCHANGED <<cmd, keyFaults>>
         \/ /\ ~rejectSecretFlags(a) /\ a.cmd # "unknown" /\ singlePathArg(a)
            /\ cmd' = [cmd EXCEPT ![p] = a.cmd]
            /\ \/ /\ Continue(p, IF a.cmd = "public-key" THEN "stat" ELSE "create")
                  /\ UNCHANGED keyFaults
               \/ /\ a.cmd # "public-key"
                  /\ KeyFault
                  /\ Continue(p, "runtime")
    /\ UNCHANGED <<files, fd, out, unnamed>>

-------------------------------------------------------------------------------
\* writeExclusive: O_EXCL refuses a path that names anything, a torn key file that an
\* earlier failure left there too.
CreateReplaces(p) ==   \* mutant: no O_EXCL
    /\ pc[p] = "create"
    /\ name' = p
    /\ Continue(p, "write")
    /\ UNCHANGED <<text, mode, stable, cmd, fd, out, unnamed, keyFaults>>

Create(p) ==
    /\ pc[p] = "create"
    /\ \/ name = NoFile /\ name' = p /\ Continue(p, "write") /\ UNCHANGED keyFaults
       \/ name # NoFile /\ Continue(p, "runtime") /\ UNCHANGED <<name, keyFaults>>
       \/ KeyFault /\ Continue(p, "runtime") /\ UNCHANGED name
    /\ UNCHANGED <<text, mode, stable, cmd, fd, out, unnamed>>

\* One write(2) of os.File.Write, which goes on until all is written. A failure leaves
\* what was written.
WriteKey(p) ==
    /\ pc[p] = "write"
    /\ \/ \E n \in Len(text[p]) + 1 .. Len(Encode) :
            /\ text' = [text EXCEPT ![p] = Truncated(n)]
            /\ IF n = Len(Encode) THEN Continue(p, "sync") ELSE UNCHANGED pc
            /\ UNCHANGED keyFaults
       \/ KeyFault /\ Continue(p, "runtime") /\ UNCHANGED text
    /\ UNCHANGED <<name, mode, stable, cmd, fd, out, unnamed>>

\* keygen prints the public key of the key it generated, psk nothing.
Printed(p) == IF cmd[p] = "keygen" THEN Encode ELSE NoFile

SyncKey(p) ==
    /\ pc[p] = "sync"
    /\ \/ /\ stable' = stable \cup {p}
          /\ Continue(p, "ok")
          /\ out' = [out EXCEPT ![p] = Printed(p)]
          /\ UNCHANGED keyFaults
       \/ KeyFault /\ Continue(p, "runtime") /\ UNCHANGED <<stable, out>>
    /\ UNCHANGED <<name, text, mode, cmd, fd, unnamed>>

-------------------------------------------------------------------------------
\* LoadPrivateKeyFile, every error of which is exitPermission.
LoadStep(p, cur, ok, l) ==
    /\ pc[p] = cur
    /\ \/ ok /\ Continue(p, l) /\ UNCHANGED keyFaults
       \/ ~ok /\ Continue(p, "permission") /\ UNCHANGED keyFaults
       \/ KeyFault /\ Continue(p, "permission")

StatKey(p) ==
    /\ LoadStep(p, "stat", name # NoFile /\ requirePrivatePerms(mode[name]), "open")
    /\ UNCHANGED <<files, cmd, fd, out, unnamed>>

\* os.ReadFile opens the path again, and reads what is there by then.
OpenKey(p) ==
    /\ LoadStep(p, "open", name # NoFile, "read")
    /\ fd' = [fd EXCEPT ![p] = IF pc'[p] = "read" THEN name ELSE NoFile]
    /\ UNCHANGED <<files, cmd, out, unnamed>>

\* PublicKey fails only on a key of another length, which ParseKey never returns.
ReadKey(p) ==
    /\ LoadStep(p, "read", ParseKey(text[fd[p]]), "ok")
    /\ out' = IF pc'[p] = "ok" THEN [out EXCEPT ![p] = text[fd[p]]] ELSE out
    /\ fd' = [fd EXCEPT ![p] = NoFile]
    /\ UNCHANGED <<files, cmd, unnamed>>

-------------------------------------------------------------------------------
Busy(p) == pc[p] \notin Codes \cup {"start"}

KillCommand(p) ==
    /\ Busy(p)
    /\ KeyFault
    /\ Continue(p, "killed")
    /\ fd' = [fd EXCEPT ![p] = NoFile]
    /\ UNCHANGED <<files, cmd, out, unnamed>>

\* What a power loss leaves of a content that was not synced.
Remains(t) == {SubSeq(t, 1, n) : n \in 0 .. Len(t)} \cup {[x \in 1 .. Len(t) |-> "other"]}

Unsynced == {x \in Inodes \ stable : text[x] # <<>>}

\* Nothing syncs the directory: the name of a new file may be lost too.
KeyPowerLoss ==
    /\ KeyFault
    /\ \E left \in [Unsynced -> UNION {Remains(text[x]) : x \in Unsynced}] :
         /\ \A x \in Unsynced : left[x] \in Remains(text[x])
         /\ text' = [x \in Inodes |-> IF x \in Unsynced THEN left[x] ELSE text[x]]
    /\ \/ UNCHANGED <<name, unnamed>>
       \/ name \in Procs /\ name' = NoFile /\ unnamed' = unnamed \cup {name}
    /\ pc' = [p \in Procs |-> IF Busy(p) THEN "killed" ELSE pc[p]]
    /\ fd' = [p \in Procs |-> NoFile]
    /\ UNCHANGED <<mode, stable, cmd, out>>

\* The operator gives the file another mode, removes it, or moves one of their own
\* there. Nothing looks at the mode again after StatKey.
ChmodKey ==
    /\ KeyFault
    /\ name # NoFile
    /\ \E m \in SUBSET Others : mode' = [mode EXCEPT ![name] = m]
    /\ UNCHANGED <<name, text, stable, procs, unnamed>>

Remove ==
    /\ KeyFault
    /\ name # NoFile
    /\ name' = NoFile
    /\ unnamed' = unnamed \cup {name}
    /\ UNCHANGED <<text, mode, stable, procs>>

Replace ==
    /\ KeyFault
    /\ name # Operator /\ Operator \notin unnamed   \* a file of their own is moved once
    /\ name' = Operator
    /\ \E t \in OperatorTexts : text' = [text EXCEPT ![Operator] = t]
    /\ mode' \in {mode, [mode EXCEPT ![Operator] = {"group"}]}
    /\ unnamed' = IF name = NoFile THEN unnamed ELSE unnamed \cup {name}
    /\ UNCHANGED <<stable, procs>>

KeyNext ==
    \/ \E p \in Procs :
         \/ Start(p) \/ Create(p) \/ WriteKey(p) \/ SyncKey(p)
         \/ StatKey(p) \/ OpenKey(p) \/ ReadKey(p) \/ KillCommand(p)
    \/ KeyPowerLoss \/ ChmodKey \/ Remove \/ Replace

KeySpec == KeyInit /\ [][KeyNext]_keyVars

-------------------------------------------------------------------------------
\* keygen and psk are safe to run at once and again: when one exits 0 its key is whole
\* and loadable, survives a power loss, and keeps the path until the operator (or a
\* power loss before the directory reached the disk) takes it away; no other command
\* replaces or touches it.
KeysKept ==
    \A p \in Procs : cmd[p] \in {"keygen", "psk"} /\ pc[p] = "ok" =>
      /\ text[p] = Encode /\ ParseKey(text[p])
      /\ name = p \/ p \in unnamed

\* A key that was only partly written, by a keygen still running, failed or killed, is
\* never taken for a key: what public-key printed came from one whole key with at most
\* a line end after it.
WholeKeys ==
    \A p \in Procs : out[p] # NoFile => out[p] \in {Key, Encode, Key \o <<"cr", "nl">>}
===============================================================================
