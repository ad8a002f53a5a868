------------------------------ MODULE LinuxHandoff ------------------------------
(***************************************************************************)
(* The bytes of a Linux launch (platform/linux_launcher, the authorizer of *)
(* runtime_process/linux_helper.rs): the parent's pending launch and the   *)
(* helper exchange a request, READY and GO over a pipe and a memory file,  *)
(* a worker's or a gateway's bootstrap frame takes a pipe of its own, and  *)
(* the helper copies the executable it was told to run into a sealed       *)
(* memory file before it replaces itself by that copy.  LinuxLaunch has    *)
(* the cgroup, the store and the cleanup around it.                        *)
(*                                                                         *)
(* A message is two chunks, a pipe holds PipeCapacity of them; reads and   *)
(* writes move one chunk, and may find the pipe empty, full or closed, or  *)
(* run out of time.  An executable is two blocks, read one at a time.      *)
(* Files are rewritten, and paths lead to other files, at any step, at     *)
(* most MaxChanges times.                                                  *)
(***************************************************************************)
EXTENDS Naturals, Sequences

CONSTANTS
    PipeCapacity,   \* chunks a pipe holds
    MaxChanges      \* bound on the changes of files and paths

ASSUME HandoffAssumption == PipeCapacity \in Nat \ {0} /\ MaxChanges \in Nat

VARIABLES
    launch,   \* what the launch carries besides the request, and its role
    files,    \* the executables, the configurations, and where paths lead
    parent,   \* the pending launch
    pipe,     \* the control pipe and the bootstrap pipe
    ready,    \* the readiness file
    process   \* the helper, then the target

handoffVars == <<launch, files, parent, pipe, ready, process>>

\* encode_frame, the GO message and a bootstrap frame.
RequestFrame == <<"request", "nonce">>
Go      == <<"go", "nonce">>
Frame   == <<"frame", "digest">>

\* The digest of a file: the version of its blocks, when they are of one.
Digest(blocks) == IF blocks[1] = blocks[2] THEN blocks[1] ELSE 0

\* The digest in the parent's launch specification.
Approved == 1

\* Two files can be at a path; of the configurations only the first is the
\* deployment's own, private to its owner.
Inode == {"own", "other"}

NoPipe == [data |-> <<>>, readers |-> {}, writers |-> {}]

\* requested and allowed are the executables that the paths of the request and
\* of the role's allowlist lead to, config the configuration at its path, link
\* whether that path has a link in it, held the one that is open.
HandoffInit ==
    /\ launch \in [kind : {"plain", "worker", "gateway"},
                   role : {"Harness", "Gateway", "HostBroker"}]
    /\ files = [exe |-> [own |-> <<1, 1>>, other |-> <<2, 2>>], config |-> "own",
                link |-> FALSE, text |-> [own |-> 1, other |-> 2], held |-> "none",
                requested |-> "own", allowed |-> "own", changes |-> 0]
    /\ parent = [pc |-> "open", sent |-> 0]
    /\ pipe = [control |-> NoPipe, boot |-> NoPipe]
    /\ ready = FALSE
    /\ process = [pc |-> "none", got |-> <<>>, copy |-> <<>>, from |-> "none",
                  health |-> <<>>, stdin |-> <<>>]

\* What a process holds is closed.
Closes(p, who) ==
    [c \in {"control", "boot"} |->
        [p[c] EXCEPT !.readers = @ \ who, !.writers = @ \ who]]

-----------------------------------------------------------------------------
(* Files. *)

Changes(new) == files.changes < MaxChanges /\ files' = [new EXCEPT !.changes = @ + 1]

\* A block of an executable, or a configuration, is rewritten.
Rewrite ==
    /\ \/ \E i \in Inode, b \in 1..2 :
             Changes([files EXCEPT !.exe[i][b] = IF @ = 1 THEN 2 ELSE 1])
       \/ \E i \in Inode :
             Changes([files EXCEPT !.text[i] = IF @ = 1 THEN 2 ELSE 1])
    /\ UNCHANGED <<launch, parent, pipe, ready, process>>

\* A path leads to another file, or through a link.
Rename ==
    /\ \/ \E p \in {"requested", "allowed", "config"} :
             Changes([files EXCEPT ![p] = IF @ = "own" THEN "other" ELSE "own"])
       \/ Changes([files EXCEPT !.link = ~@])
    /\ UNCHANGED <<launch, parent, pipe, ready, process>>

-----------------------------------------------------------------------------
(* The parent: TrustedLinuxLauncher and PendingLaunch. *)

\* terminate_child_bounded and close_handoff_descriptors: the launch fails, its
\* descriptors are closed and its helper is killed.
Fails ==
    /\ parent' = [parent EXCEPT !.pc = "failed"]
    /\ pipe' = Closes(pipe, {"parent", "helper", "target"})
    /\ process' = [process EXCEPT !.pc = IF @ = "none" THEN @ ELSE "dead"]

\* parent_descriptors: the pipes of the launch, with both ends in the parent.
ParentDescriptors ==
    [control |-> [NoPipe EXCEPT !.writers = {"parent"}, !.readers = {"helper"}],
     boot |-> IF launch.kind = "plain" THEN NoPipe
              ELSE [NoPipe EXCEPT !.writers = {"parent"}, !.readers = {"parent"}]]

\* open_regular_path_without_links: every component is opened with NOFOLLOW.
OpenWithoutLinks == IF files.link THEN {} ELSE {files.config}

\* validate_protected_config_handle: a regular file, private to its owner.
ValidProtectedConfig(inode) == inode = "own"

\* open_protected_config_path: the file is opened and validated.
OpenProtectedConfig ==
    /\ parent.pc = "open"
    /\ \/ /\ \E i \in OpenWithoutLinks : ValidProtectedConfig(i) /\ files' = [files EXCEPT !.held = i]
          /\ parent' = [parent EXCEPT !.pc = "bind"]
          /\ UNCHANGED <<pipe, process>>
       \/ Fails /\ UNCHANGED files
    /\ UNCHANGED <<launch, ready>>

\* LinuxHelperBootstrap::new: the path still leads to what was opened.
BindProtectedConfig ==
    /\ parent.pc = "bind"
    /\ \/ /\ files.config = files.held /\ ~files.link
          /\ parent' = [parent EXCEPT !.pc = "idle"]
          /\ UNCHANGED <<pipe, process>>
       \/ Fails
    /\ UNCHANGED <<launch, files, ready>>

\* canonical_approved_executable: the path of the request leads to the file of
\* the role's allowlist, which has the digest.
CanonicalApproved ==
    files.requested = files.allowed /\ Digest(files.exe[files.requested]) = Approved

\* prepare_with_worker_bootstrap, prepare_with_gateway_health_bootstrap.
WorkerFits  == launch.kind = "worker" => launch.role = "Harness"
GatewayFits == launch.kind = "gateway" => launch.role = "Gateway"

\* launch_with_bootstraps, before the cgroup: no graphical session is launched.
Launchable == launch.role # "HostBroker" /\ CanonicalApproved

\* prepare_inner: the helper's own bytes are verified and copied the same way
\* as the target's, and it is spawned.
PrepareInner ==
    /\ parent.pc = "idle"
    /\ \/ /\ Launchable /\ WorkerFits /\ GatewayFits
          /\ parent' = [pc |-> "request", sent |-> 0]
          /\ pipe' = ParentDescriptors
          /\ process' = [process EXCEPT !.pc = "start"]
       \/ Fails
    /\ UNCHANGED <<launch, files, ready>>

\* write_bounded: the next chunk of a message is written, the last one with what
\* the caller does then; or the pipe has no reader, or the time is up.
WriteBounded(c, message, next) ==
    \/ /\ pipe[c].readers # {} /\ Len(pipe[c].data) < PipeCapacity
       /\ LET last == parent.sent + 1 = Len(message)
          IN  /\ parent' = [pc |-> IF last THEN next ELSE parent.pc,
                            sent |-> IF last THEN 0 ELSE parent.sent + 1]
              /\ pipe' = [pipe EXCEPT ![c].data = Append(@, message[parent.sent + 1]),
                                      ![c].writers = IF last /\ c = "boot" THEN {} ELSE @]
       /\ UNCHANGED process
    \/ Fails

\* release_gate, up to the request.
SendRequestFrame ==
    /\ parent.pc = "request" /\ WriteBounded("control", RequestFrame, "ready")
    /\ UNCHANGED <<launch, files, ready>>

\* wait_for_ready; the parent's read end of the bootstrap pipe is closed.
WaitForReadyFile ==
    /\ parent.pc = "ready"
    /\ \/ /\ ready /\ parent' = [parent EXCEPT !.pc = "go"]
          /\ pipe' = [pipe EXCEPT !.boot.readers = @ \ {"parent"}]
          /\ UNCHANGED process
       \/ Fails
    /\ UNCHANGED <<launch, files, ready>>

\* release_gate: GO.
SendGoMessage ==
    /\ parent.pc = "go"
    /\ WriteBounded("control", Go, IF launch.kind = "plain" THEN "released" ELSE "boot")
    /\ UNCHANGED <<launch, files, ready>>

\* write_worker_frame, write_gateway_health_frame; the write end is closed.
SendFrame ==
    /\ parent.pc = "boot" /\ WriteBounded("boot", Frame, "released")
    /\ UNCHANGED <<launch, files, ready>>

\* take_child: what is left of the parent's descriptors is closed.
TakeChild ==
    /\ parent.pc = "released"
    /\ parent' = [parent EXCEPT !.pc = "done"]
    /\ pipe' = Closes(pipe, {"parent"})
    /\ UNCHANGED <<launch, files, ready, process>>

\* The watchdog dies: nobody kills the helper.
ParentDies ==
    /\ parent.pc \in {"request", "ready", "go", "boot", "released"}
    /\ parent' = [parent EXCEPT !.pc = "dead"]
    /\ pipe' = Closes(pipe, {"parent"})
    /\ UNCHANGED <<launch, files, ready, process>>

-----------------------------------------------------------------------------
(* The helper: run_hidden_helper_core. *)

Holds == parent.pc \notin {"failed", "done", "dead"}

\* The helper returns an error and exits.
HelperFails ==
    /\ process' = [process EXCEPT !.pc = "dead"]
    /\ pipe' = Closes(pipe, {"helper"})

HelperGoesTo(pc) == process' = [process EXCEPT !.pc = pc, !.got = <<>>]

\* open_parent_worker_descriptor, open_parent_gateway_health_descriptor: the
\* parent's read end is opened once more.
OpenParentPipe == [pipe EXCEPT !.boot.readers = IF "parent" \in @ THEN @ \cup {"helper"} ELSE @]

\* from_parent_fds: the helper's parent is the one named, and its descriptors
\* are opened anew through it; the readiness file is empty.
OpenParentDescriptors ==
    /\ process.pc = "start"
    /\ \/ /\ Holds /\ ~ready /\ ValidProtectedConfig(files.held)
          /\ pipe' = OpenParentPipe
          /\ HelperGoesTo("request")
       \/ HelperFails
    /\ UNCHANGED <<launch, files, parent, ready>>

\* read_exact_bounded: the next chunk is read, or the pipe is closed before the
\* message is complete, or the time is up; a complete message is checked.
ReadExactBounded(c, message, next) ==
    \/ /\ pipe[c].data # <<>>
       /\ LET got == Append(process.got, Head(pipe[c].data))
          IN  IF Len(got) < Len(message)
              THEN process' = [process EXCEPT !.got = got]
              ELSE got = message /\ HelperGoesTo(next)
       /\ pipe' = [pipe EXCEPT ![c].data = Tail(@)]
    \/ HelperFails

\* read_frame_bounded and decode_frame.
ReadRequestFrame ==
    /\ process.pc = "request" /\ ReadExactBounded("control", RequestFrame, "ack")
    /\ UNCHANGED <<launch, files, parent, ready>>

\* run_hidden_helper_core: the pipe of a worker goes with its role, as does
\* that of a gateway.
RoleFitsPipe ==
    pipe.boot.readers # {} => /\ launch.kind = "worker" => launch.role = "Harness"
                              /\ launch.kind = "gateway" => launch.role = "Gateway"

\* HelperReadyChannel::send.
SendReady ==
    /\ process.pc = "ack"
    /\ \/ RoleFitsPipe /\ ready' = TRUE /\ HelperGoesTo("go") /\ UNCHANGED pipe
       \/ HelperFails /\ UNCHANGED ready
    /\ UNCHANGED <<launch, files, parent>>

\* authorize_after_release_with_health: read_go_bounded.
ReadGo ==
    /\ process.pc = "go"
    /\ ReadExactBounded("control", Go, IF launch.kind = "gateway" THEN "health" ELSE "config")
    /\ UNCHANGED <<launch, files, parent, ready>>

\* Mutant: what one read returns is the frame.
ReadHealthOnce ==
    /\ process.pc = "health"
    /\ \/ /\ pipe.boot.data # <<>>
          /\ process' = [process EXCEPT !.pc = "config", !.health = pipe.boot.data]
          /\ pipe' = [pipe EXCEPT !.boot.data = <<>>]
       \/ HelperFails
    /\ UNCHANGED <<launch, files, parent, ready>>

\* read_gateway_health_frame: the whole frame, and then the end of the pipe.
ReadHealthFrame ==
    /\ process.pc = "health"
    /\ \/ /\ pipe.boot.data # <<>> /\ Len(process.got) < Len(Frame)
          /\ process' = [process EXCEPT !.got = Append(@, Head(pipe.boot.data))]
          /\ pipe' = [pipe EXCEPT !.boot.data = Tail(@)]
       \/ /\ process.got = Frame /\ pipe.boot.data = <<>> /\ pipe.boot.writers = {}
          /\ process' = [process EXCEPT !.pc = "config", !.health = process.got]
          /\ UNCHANGED pipe
       \/ HelperFails
    /\ UNCHANGED <<launch, files, parent, ready>>

\* protected_config_from_bootstrap and launch_spec_for: the specification that
\* the held configuration gives is the one of the request.
AuthorizeByConfig ==
    /\ process.pc = "config"
    /\ \/ files.text[files.held] = Approved /\ HelperGoesTo("hash") /\ UNCHANGED pipe
       \/ HelperFails
    /\ UNCHANGED <<launch, files, parent, ready>>

\* authorize_request: the file at the path is the role's and has the digest.
HashExecutable ==
    /\ process.pc = "hash"
    /\ \/ CanonicalApproved /\ HelperGoesTo("resolve") /\ UNCHANGED pipe
       \/ HelperFails
    /\ UNCHANGED <<launch, files, parent, ready>>

\* spawn_authorized_target, its first half: the paths are resolved once more and
\* the allowed file is opened.
ResolveTarget ==
    /\ process.pc = "resolve"
    /\ \/ /\ launch.role # "HostBroker" /\ files.requested = files.allowed
          /\ process' = [process EXCEPT !.pc = "copy", !.from = files.allowed]
          /\ UNCHANGED pipe
       \/ HelperFails
    /\ UNCHANGED <<launch, files, parent, ready>>

\* hash_and_copy: a block goes into the memory file and into the digest.
CopyBlock ==
    /\ process.pc = "copy" /\ Len(process.copy) < 2
    /\ process' = [process EXCEPT !.copy = Append(@, files.exe[process.from][Len(@) + 1])]
    /\ UNCHANGED <<launch, files, parent, pipe, ready>>

\* Mutant: the digest was checked already.
SealCopy ==
    /\ process.pc = "copy" /\ Len(process.copy) = 2
    /\ HelperGoesTo("exec")
    /\ UNCHANGED <<launch, files, parent, pipe, ready>>

\* open_verified_executable: the digest of what was copied; then the seal.
VerifyCopy ==
    /\ process.pc = "copy" /\ Len(process.copy) = 2
    /\ \/ Digest(process.copy) = Approved /\ HelperGoesTo("exec") /\ UNCHANGED pipe
       \/ HelperFails
    /\ UNCHANGED <<launch, files, parent, ready>>

\* set_worker_reader_blocking: a worker has the bootstrap pipe for its input.
WorkerStdin(p) ==
    [p EXCEPT !.boot.readers = @ \cup (IF launch.kind = "worker" THEN {"target"} ELSE {})]

\* gateway_health_stdin: a gateway has a pipe with the validated frame.
GatewayStdin == process.health

\* spawn_authorized_target, its second half: the copy is executed; a target
\* that is neither a worker nor a gateway has no input.
ExecTarget ==
    /\ process.pc = "exec"
    /\ \/ /\ process' = [process EXCEPT !.pc = "target", !.got = <<>>, !.stdin = GatewayStdin]
          /\ pipe' = WorkerStdin(Closes(pipe, {"helper"}))
       \/ HelperFails
    /\ UNCHANGED <<launch, files, parent, ready>>

\* The target reads its standard input.
TargetReads ==
    /\ process.pc = "target"
    /\ \/ /\ launch.kind = "worker" /\ pipe.boot.data # <<>>
          /\ process' = [process EXCEPT !.got = Append(@, Head(pipe.boot.data))]
          /\ pipe' = [pipe EXCEPT !.boot.data = Tail(@)]
       \/ /\ process.stdin # <<>>
          /\ process' = [process EXCEPT !.got = Append(@, Head(process.stdin)),
                                        !.stdin = Tail(@)]
          /\ UNCHANGED pipe
    /\ UNCHANGED <<launch, files, parent, ready>>

ProcessDies ==
    /\ process.pc \notin {"none", "dead"}
    /\ process' = [process EXCEPT !.pc = "dead"]
    /\ pipe' = Closes(pipe, {"helper", "target"})
    /\ UNCHANGED <<launch, files, parent, ready>>

HandoffNext ==
    \/ Rewrite \/ Rename \/ OpenProtectedConfig \/ BindProtectedConfig
    \/ PrepareInner \/ SendRequestFrame \/ WaitForReadyFile \/ SendGoMessage \/ SendFrame
    \/ TakeChild \/ ParentDies
    \/ OpenParentDescriptors \/ ReadRequestFrame \/ SendReady \/ ReadGo \/ ReadHealthFrame
    \/ AuthorizeByConfig \/ HashExecutable \/ ResolveTarget \/ CopyBlock \/ VerifyCopy \/ ExecTarget
    \/ TargetReads \/ ProcessDies

HandoffSpec == HandoffInit /\ [][HandoffNext]_handoffVars

-----------------------------------------------------------------------------
(* Properties. *)

\* The bytes that run are the ones the launch approved, and the configuration
\* that the watchdog opened approved them too when it was read, although the
\* executable and the configuration change at any step of the helper.
ExecIsApproved ==
    [][/\ process.pc = "config" /\ process'.pc = "hash" => files.text[files.held] = Approved
       /\ process.pc = "exec" /\ process'.pc = "target" =>
             process'.copy = <<Approved, Approved>> /\ launch.role # "HostBroker"]_handoffVars

\* A target reads from its standard input its own bootstrap frame: a gateway
\* the whole of it, a worker nothing else, and the whole of it when the launch
\* was released; any other target nothing.
TargetReadsItsFrame ==
    process.pc = "target" =>
        LET input == process.got \o (IF launch.kind = "worker" THEN pipe.boot.data ELSE process.stdin)
        IN  /\ launch.kind = "gateway" => input = Frame
            /\ launch.kind = "worker" =>
                  /\ \E n \in 0..Len(Frame) : input = SubSeq(Frame, 1, n)
                  /\ parent.pc \in {"released", "done"} => input = Frame
            /\ launch.kind = "plain" => input = <<>>
================================================================================
