---------------------------- MODULE PackageTools ----------------------------
(***************************************************************************)
(* The developer's commands opk pack and opk sign on one source directory, *)
(* one package file and one key. Each command is a process of its own;     *)
(* they run side by side (an editor that saves, a build script that packs, *)
(* a shell that signs).                                                    *)
(***************************************************************************)
EXTENDS OpkFile

VARIABLES
  source,  \* the revision in the source directory
  opk,     \* the package file
  packer,  \* an opk pack process
  signer   \* an opk sign process

toolVars == <<source, opk, packer, signer>>

IdlePacker == [pc |-> "idle", sums |-> 0, linked |-> FALSE]
IdleSigner == [pc |-> "idle", msg |-> <<>>, copy |-> None]

Oldest == CHOOSE r \in Revisions : \A s \in Revisions : r <= s

ToolsInit ==
  /\ source = Oldest /\ opk = None
  /\ packer = IdlePacker /\ signer = IdleSigner

\* The developer saves the next revision.
Edit ==
  /\ source + 1 \in Revisions
  /\ source' = source + 1
  /\ UNCHANGED <<opk, packer, signer>>

-----------------------------------------------------------------------------
(***************************************************************************)
(* pack: hash every file, empty the output in place, then read every file  *)
(* again and write it.                                                     *)
(***************************************************************************)
PackHash ==
  /\ packer.pc = "idle"
  /\ packer' = [packer EXCEPT !.pc = "hashed", !.sums = source]
  /\ UNCHANGED <<source, opk, signer>>

PackCreate ==
  /\ packer.pc = "hashed"
  /\ opk' = Cut
  /\ packer' = [packer EXCEPT !.pc = "created", !.linked = TRUE]
  /\ UNCHANGED <<source, signer>>

\* A sign that renamed its copy over the path in the meantime has unlinked
\* the file that this process writes.
PackWrite ==
  /\ packer.pc = "created"
  /\ opk' = IF packer.linked
              THEN [data |-> source, sums |-> packer.sums, sig |-> "blank"]
              ELSE opk
  /\ packer' = IdlePacker
  /\ UNCHANGED <<source, signer>>

-----------------------------------------------------------------------------
(***************************************************************************)
(* sign: sign what the file holds, open it again and copy it into a file   *)
(* of its own with the new signature, then rename that file over it.       *)
(***************************************************************************)
Signed(p, msg) == [p EXCEPT !.sig = IF msg = Message(p) THEN "good" ELSE "stale"]

SignRead ==
  /\ signer.pc = "idle" /\ Readable(opk)
  /\ signer' = [signer EXCEPT !.pc = "signed", !.msg = Message(opk)]
  /\ UNCHANGED <<source, opk, packer>>

SignCopy ==
  /\ signer.pc = "signed"
  /\ signer' = IF Readable(opk)
                 THEN [signer EXCEPT !.pc = "copied", !.copy = Signed(opk, signer.msg)]
                 ELSE IdleSigner
  /\ UNCHANGED <<source, opk, packer>>

SignRename ==
  /\ signer.pc = "copied"
  /\ opk' = signer.copy
  /\ packer' = [packer EXCEPT !.linked = FALSE]
  /\ signer' = IdleSigner
  /\ UNCHANGED <<source>>

-----------------------------------------------------------------------------
\* A command that fails, or is interrupted, leaves what it has written.
ToolStops ==
  \/ /\ packer.pc # "idle" /\ packer' = IdlePacker
     /\ UNCHANGED <<source, opk, signer>>
  \/ /\ signer.pc # "idle" /\ signer' = IdleSigner
     /\ UNCHANGED <<source, opk, packer>>

ToolsNext ==
  \/ Edit \/ PackHash \/ PackCreate \/ PackWrite
  \/ SignRead \/ SignCopy \/ SignRename \/ ToolStops
=============================================================================
