------------------------------ MODULE ClabLaunch ------------------------------
(***************************************************************************)
(* launch() of clab-gnmi/setup.py: a child unshares its namespaces, the    *)
(* parent maps its ids and connects its network from outside, and two      *)
(* pipes make each wait for the other.  The child then forks the process   *)
(* that becomes tmux.  Any of them may fail or be interrupted at any point *)
(* and what the others see of it is the end of a pipe, or an exit status.  *)
(***************************************************************************)
EXTENDS Naturals

VARIABLES
  pc,      \* where each process is
  code,    \* the exit status of each process
  held,    \* the pipe ends each process has open
  sent,    \* the pipes in which a byte was written
  unshared,\* the child has its own namespaces
  mapped,  \* the ids of the child that are mapped
  net      \* what pasta did: nothing, opened its log, or set the network up

vars == <<pc, code, held, sent, unshared, mapped, net>>

Procs == {"parent", "child", "grand"}
Ends  == {"ready_r", "ready_w", "go_r", "go_w"}

ParentPcs == {"workspace", "fork", "close", "read", "map_uid", "map_gid", "pasta", "go", "wait", "gone"}
ChildPcs  == {"none", "close", "unshare", "ready", "read", "fork", "wait", "gone"}
GrandPcs  == {"none", "enter", "tmux", "gone"}

TypeOK ==
  /\ pc \in [Procs -> ParentPcs \cup ChildPcs \cup GrandPcs]
  /\ pc["parent"] \in ParentPcs /\ pc["child"] \in ChildPcs /\ pc["grand"] \in GrandPcs
  /\ code \in [Procs -> {"none", "ok", "failed"}]
  /\ \A p \in Procs : code[p] = "none" <=> pc[p] # "gone"
  /\ held \in [Procs -> SUBSET Ends]
  /\ \A p \in Procs : pc[p] \in {"none", "gone"} => held[p] = {}
  /\ sent \subseteq {"ready", "go"}
  /\ unshared \in BOOLEAN
  /\ mapped \subseteq {"uid", "gid"}
  /\ net \in {"none", "log", "up"}

Init ==
  /\ pc = [p \in Procs |-> IF p = "parent" THEN "workspace" ELSE "none"]
  /\ code = [p \in Procs |-> "none"]
  /\ held = [p \in Procs |-> {}]
  /\ sent = {}
  /\ unshared = FALSE
  /\ mapped = {}
  /\ net = "none"

-----------------------------------------------------------------------------
Open(end) == \E p \in Procs : end \in held[p]

Step(p, from, to) == pc[p] = from /\ pc' = [pc EXCEPT ![p] = to]

\* The process is over, and so is its hold on the pipes.
End(p, status) ==
  /\ pc' = [pc EXCEPT ![p] = "gone"]
  /\ code' = [code EXCEPT ![p] = status]
  /\ held' = [held EXCEPT ![p] = {}]
  /\ UNCHANGED <<sent, unshared, mapped, net>>

Close(p, ends) == held' = [held EXCEPT ![p] = @ \ ends]

\* os.read: a byte, or the end of the file once nobody can write one.  The
\* code does not look at which it was.
Read(byte, writer) == byte \in sent \/ ~Open(writer)

\* Mutant of Waited: waitpid returns at once (WNOHANG).
WaitedNot(p, other) == pc[p] = "wait" /\ End(p, code[other])

\* waitpid: the exit status of the other is one's own.
Waited(p, other) == pc[p] = "wait" /\ pc[other] = "gone" /\ End(p, code[other])

-----------------------------------------------------------------------------
(* The parent *)

\* The subordinate ids are looked up, the workspace is built, and the pipes
\* are opened.
BuildWorkspace ==
  /\ Step("parent", "workspace", "fork")
  /\ held' = [held EXCEPT !["parent"] = Ends]
  /\ UNCHANGED <<code, sent, unshared, mapped, net>>

\* os.fork: the child inherits the four ends.
Fork ==
  /\ pc["parent"] = "fork"
  /\ pc' = [pc EXCEPT !["parent"] = "close", !["child"] = "close"]
  /\ held' = [held EXCEPT !["child"] = held["parent"]]
  /\ UNCHANGED <<code, sent, unshared, mapped, net>>

\* Mutant of ParentClose: the end that the child writes to stays open.
ParentKeepsReady ==
  /\ Step("parent", "close", "read")
  /\ Close("parent", {"go_r"})
  /\ UNCHANGED <<code, sent, unshared, mapped, net>>

ParentClose ==
  /\ Step("parent", "close", "read")
  /\ Close("parent", {"ready_w", "go_r"})
  /\ UNCHANGED <<code, sent, unshared, mapped, net>>

ParentRead ==
  /\ Step("parent", "read", "map_uid")
  /\ Read("ready", "ready_w")
  /\ UNCHANGED <<code, held, sent, unshared, mapped, net>>

\* map_ids: newuidmap and newgidmap want a live process in a new namespace.
CanMap == unshared /\ pc["child"] # "gone"

MapUid ==
  /\ Step("parent", "map_uid", "map_gid")
  /\ CanMap
  /\ mapped' = mapped \cup {"uid"}
  /\ UNCHANGED <<code, held, sent, unshared, net>>

MapGid ==
  /\ Step("parent", "map_gid", "pasta")
  /\ CanMap
  /\ mapped' = mapped \cup {"gid"}
  /\ UNCHANGED <<code, held, sent, unshared, net>>

\* Mutant of Pasta: without check=True its exit status is ignored.
PastaUnchecked ==
  /\ Step("parent", "pasta", "go")
  /\ net' \in {"none", "log", "up"}
  /\ UNCHANGED <<code, held, sent, unshared, mapped>>

\* pasta joins the namespaces of the child by their paths.
Pasta ==
  /\ Step("parent", "pasta", "go")
  /\ CanMap
  /\ net' = "up"
  /\ UNCHANGED <<code, held, sent, unshared, mapped>>

\* It fails after it opened its log in the workspace.
PastaFails ==
  /\ pc["parent"] = "pasta"
  /\ net' = "log"
  /\ pc' = [pc EXCEPT !["parent"] = "gone"]
  /\ code' = [code EXCEPT !["parent"] = "failed"]
  /\ held' = [held EXCEPT !["parent"] = {}]
  /\ UNCHANGED <<sent, unshared, mapped>>

\* The release of the child: it fails if nobody reads it any more.
WriteGo ==
  /\ Step("parent", "go", "wait")
  /\ Open("go_r")
  /\ sent' = sent \cup {"go"}
  /\ Close("parent", {"go_w"})
  /\ UNCHANGED <<code, unshared, mapped, net>>

ParentWait == Waited("parent", "child")

\* An exception: a helper that fails (check=True), a broken pipe, the fork,
\* or the interruption of the user.  Nothing catches it.
ParentFails ==
  /\ pc["parent"] # "gone"
  /\ End("parent", "failed")

-----------------------------------------------------------------------------
(* The child, and the process it forks *)

\* Mutant of ChildClose: the end that the parent writes to stays open.
ChildKeepsGo ==
  /\ Step("child", "close", "unshare")
  /\ Close("child", {"ready_r"})
  /\ UNCHANGED <<code, sent, unshared, mapped, net>>

ChildClose ==
  /\ Step("child", "close", "unshare")
  /\ Close("child", {"ready_r", "go_w"})
  /\ UNCHANGED <<code, sent, unshared, mapped, net>>

Unshare ==
  /\ Step("child", "unshare", "ready")
  /\ unshared' = TRUE
  /\ UNCHANGED <<code, held, sent, mapped, net>>

WriteReady ==
  /\ Step("child", "ready", "read")
  /\ Open("ready_r")
  /\ sent' = sent \cup {"ready"}
  /\ Close("child", {"ready_w"})
  /\ UNCHANGED <<code, unshared, mapped, net>>

ReadGo ==
  /\ Step("child", "read", "fork")
  /\ Read("go", "go_w")
  /\ Close("child", {"go_r"})
  /\ UNCHANGED <<code, sent, unshared, mapped, net>>

ForkGrand ==
  /\ pc["child"] = "fork"
  /\ pc' = [pc EXCEPT !["child"] = "wait", !["grand"] = "enter"]
  /\ UNCHANGED <<code, held, sent, unshared, mapped, net>>

ChildWait == Waited("child", "grand")

ChildFails ==
  /\ pc["child"] \notin {"none", "gone"}
  /\ End("child", "failed")

\* enter_namespace: a new root is built, entered, and tmux executed in it.
\* The log of pasta is bound in it, and that bind is not optional.
EnterNamespace ==
  /\ Step("grand", "enter", "tmux")
  /\ net # "none"
  /\ UNCHANGED <<code, held, sent, unshared, mapped, net>>

\* The user leaves tmux.
LeaveTmux ==
  /\ pc["grand"] = "tmux"
  /\ End("grand", "ok")

GrandFails ==
  /\ pc["grand"] \in {"enter", "tmux"}
  /\ End("grand", "failed")

-----------------------------------------------------------------------------
Parent ==
  \/ BuildWorkspace \/ Fork \/ ParentClose \/ ParentRead \/ MapUid \/ MapGid \/ Pasta \/ WriteGo
  \/ ParentWait

Child ==
  \/ ChildClose \/ Unshare \/ WriteReady \/ ReadGo \/ ForkGrand \/ ChildWait

\* A step that cannot succeed ends its process.
ParentStuck == pc["parent"] \in {"map_uid", "map_gid", "pasta", "go"} /\ ParentFails
ChildStuck  == pc["child"] = "ready" /\ ChildFails
GrandStuck  == pc["grand"] = "enter" /\ GrandFails

Terminated ==
  /\ \A p \in Procs : pc[p] \in {"none", "gone"}
  /\ UNCHANGED vars

Next ==
  \/ Parent \/ PastaFails \/ ParentFails
  \/ Child \/ ChildFails
  \/ EnterNamespace \/ LeaveTmux \/ GrandFails
  \/ Terminated

Spec == Init /\ [][Next]_vars

\* Processes are scheduled.  The user need not leave tmux.
FairSpec ==
  /\ Spec
  /\ WF_vars(Parent \/ ParentStuck)
  /\ WF_vars(Child \/ ChildStuck)
  /\ WF_vars(EnterNamespace \/ GrandStuck)

-----------------------------------------------------------------------------
(* Properties *)

\* Whoever fails, and wherever, nobody reads or waits for ever: either tmux
\* runs or, in the end, no process of the launch is left.
NoHang ==
  []<>(pc["grand"] = "tmux" \/ \A p \in Procs : pc[p] \in {"none", "gone"})

Runs(p) == pc[p] \notin {"none", "gone"}

\* A process in os.read or waitpid that does not return yet.
Waits(p) ==
  \/ p = "parent" /\ pc[p] = "read" /\ ~Read("ready", "ready_w")
  \/ p = "child" /\ pc[p] = "read" /\ ~Read("go", "go_w")
  \/ p = "parent" /\ pc[p] = "wait" /\ pc["child"] # "gone"
  \/ p = "child" /\ pc[p] = "wait" /\ pc["grand"] # "gone"

\* Nobody waits for an end of a pipe that only those hold who wait themselves,
\* nor for its own: as long as a process runs, one of them need not wait.
SomebodyGoesOn ==
  (\E p \in Procs : Runs(p)) => \E p \in Procs : Runs(p) /\ ~Waits(p)

\* What makes it inductive: who has closed which end, and that the one waited
\* for is there or has written.
PipesClosed ==
  /\ held["grand"] = {}
  /\ pc["parent"] \in ParentPcs \ {"workspace", "fork", "close"} => "ready_w" \notin held["parent"]
  /\ pc["child"] # "close" => "go_w" \notin held["child"]
  /\ pc["child"] \in {"read", "fork", "wait"} => "ready_w" \notin held["child"]
  /\ pc["parent"] = "wait" => "go" \in sent
  /\ pc["child"] = "none" => pc["parent"] \in {"workspace", "fork", "gone"}
  /\ pc["child"] = "wait" => pc["grand"] # "none"

\* The command succeeds only if tmux ended well in an environment that had
\* its ids and its network: no failure on the way is turned into a success.
SuccessMeansConfigured ==
  code["parent"] = "ok" =>
    /\ code["grand"] = "ok"
    /\ unshared /\ mapped = {"uid", "gid"} /\ net = "up"

\* What makes it inductive: a byte in the go pipe stands for all that the
\* parent does, and a parent past a step has done it ...
GoMeansConfigured ==
  /\ pc["parent"] \in {"map_gid", "pasta", "go", "wait"} => unshared /\ "uid" \in mapped
  /\ pc["parent"] \in {"pasta", "go", "wait"} => "gid" \in mapped
  /\ pc["parent"] \in {"go", "wait"} => net = "up"
  /\ code["child"] = "ok" => code["grand"] = "ok"

\* ... and a process is not there before it is forked.
NotYetForked ==
  /\ pc["parent"] \in {"workspace", "fork"} => pc["child"] = "none"
  /\ pc["child"] \in ChildPcs \ {"wait", "gone"} => pc["grand"] = "none"

\* setup.py:392, "wait for the parent to map ids and configure the network":
\* the rest of the child runs only after that.
WaitsForParent ==
  pc["grand"] # "none" => mapped = {"uid", "gid"} /\ net = "up"
=============================================================================
