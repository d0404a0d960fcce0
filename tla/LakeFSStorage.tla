--------------------------- MODULE LakeFSStorage ---------------------------
(***************************************************************************)
(* The versioned store behind an HTTP interface (lakefs_storage.cpp), used *)
(* by several clients, and the read-modify-write of index objects on top   *)
(* of it (index_utils.cpp).                                                *)
(*                                                                         *)
(* A call of StorageInterface is a program of one or more requests; other  *)
(* clients' requests come in between.  The server serves a request in one  *)
(* step, as MemoryStorage serves a call.  A request can fail: it never     *)
(* arrives, its answer gets lost, or the client stops waiting for it and   *)
(* the server serves it some time later.                                   *)
(***************************************************************************)
EXTENDS MemoryStorage

LOCAL INSTANCE FiniteSetsExt

CONSTANTS
    Clients,       \* the callers
    Artifacts,     \* the artifacts with rows in the index object
    IndexPath,     \* the path of the index object; paths are numbers
    Scenarios,     \* bound: repositories to start with, the calls clients make
                   \*   then, how many of them, and how many requests fail
    NoAnswer

INSTANCE IndexObject WITH OrderValues <- {0}, Missing <- Absent

(* The calls clients make.  Index objects are written as rows only.        *)
IndexCalls == {"add_row", "remove_row"}
Calls ==
         [kind : {"delete", "commit", "head"}, branch : Branches]
    \cup [kind : {"create"}, branch : Branches, base : {Main} \cup Nat]
    \cup [kind : {"get"}, ref : Branches \cup Nat, path : Paths]
    \cup [kind : {"list"}, ref : Branches \cup Nat]
    \cup [kind : {"put"}, branch : Branches, path : Paths \ {IndexPath}, value : Values]
    \cup [kind : {"delete_object"}, branch : Branches, path : Paths \ {IndexPath}]
    \cup {x \in [kind : {"merge"}, source : Branches, target : Branches] : x.source # x.target}
    \cup [kind : IndexCalls, branch : Branches, artifact : Artifacts]

Removed(calls) == {x.artifact : x \in {x \in calls : x.kind = "remove_row"}}

(* A repository to start with, as the store builds them: parents are       *)
(* earlier commits, branches point to commits, nothing is staged, index    *)
(* objects are where they belong, and a commit has the rows of its parents *)
(* unless the calls of the scenario remove them.                           *)
StartOK(r, removed) ==
    LET rows(c) == AtCommit(r, c)[IndexPath]
    IN  /\ r \in Repository
        /\ \A b \in Branches : BranchExists(r, b) => CommitExists(r, r.head[b])
        /\ BranchExists(r, Main)
        /\ \A b \in Branches : IsClean(r, b)
        /\ \A c \in CommitIds(r) :
            /\ r.commits[c].parents \subseteq 1 .. c - 1
            /\ c # Genesis => r.commits[c].parents # {}
            /\ rows(c) \in IndexObjects \cup {Absent}
            /\ \A x \in r.commits[c].parents :
                    DOMAIN Rows(rows(x)) \ removed \subseteq DOMAIN Rows(rows(c))

ASSUME LakeFSAssumption ==
    /\ Paths \subseteq Nat \ {0} /\ IsFiniteSet(Paths) /\ IndexPath \in Paths
    /\ IndexObjects \subseteq Values
    /\ \A sc \in Scenarios :
        /\ sc.number \in Nat /\ sc.faults \in Nat /\ sc.calls \subseteq Calls
        /\ StartOK(sc.repo, Removed(sc.calls))

VARIABLES
    repo,      \* the server's repository
    call,      \* per client: the call it works on or has finished; pc names the
               \*   request it makes next, note is what it remembers of replies
    adrift,    \* requests no one waits for that the server may yet serve
    bounds,    \* bound: the calls and failures still to come
    \* history:
    seen,      \* per client: the answers of an atomic store since its call began
    listable,  \* per client: since then, what was always listed, and what ever
    deleted,   \* a branch has been deleted
    careless   \* an index object was put by someone who did not have its rows

vars == <<repo, call, adrift, bounds, seen, listable, deleted, careless>>

NoCall == [in |-> [kind |-> "none"], pc |-> "done", note |-> NoAnswer,
           answer |-> NoAnswer, applied |-> 0]
Running(c) == call[c].pc # "done"
Writes == {"create", "delete", "put", "delete_object", "commit", "merge"}

Visible(r, ref) == IF ref \in Branches THEN ResolveState(r, ref) ELSE AtCommit(r, ref)
RefExists(r, ref) ==
    IF ref \in Branches THEN BranchExists(r, ref) ELSE CommitExists(r, ref)
Listed(r, ref) ==
    IF RefExists(r, ref) THEN {p \in Paths : Visible(r, ref)[p] # Absent} ELSE {}

-----------------------------------------------------------------------------
(* The server: how it replies to the request of a call, with a status and  *)
(* a body, and what the request does.                                      *)

BranchOf(k) ==
    CASE k.pc \in {"source_clean", "source_head"} -> k.in.source
      [] k.pc \in {"target_clean", "target_head"} -> k.in.target
      [] OTHER -> k.in.branch
RefOf(k) == IF k.in.kind \in IndexCalls THEN k.in.branch ELSE k.in.ref
PathOf(k) == IF k.in.kind \in IndexCalls THEN IndexPath ELSE k.in.path
BothExist(r, k) == BranchExists(r, k.in.source) /\ BranchExists(r, k.in.target)

OkIf(found) == IF found THEN "ok" ELSE "not_found"

Reply(r, k) ==
    CASE k.pc \in {"exists", "head", "source_head", "target_head", "put", "commit"} ->
            OkIf(BranchExists(r, BranchOf(k)))
      [] k.pc = "commit_exists" -> OkIf(CommitExists(r, k.in.base))
      [] k.pc \in {"source_clean", "target_clean"} ->
            IF BranchExists(r, BranchOf(k)) /\ ~IsClean(r, BranchOf(k)) THEN "unclean"
            ELSE OkIf(BranchExists(r, BranchOf(k)))
      [] k.pc \in {"ref", "list"} -> OkIf(RefExists(r, RefOf(k)))
      [] k.pc = "get"           -> OkIf(PathOf(k) \in Listed(r, RefOf(k)))
      [] k.pc = "delete_object" -> OkIf(PathOf(k) \in Listed(r, k.in.branch))
      [] k.pc = "create" ->
            IF BranchExists(r, k.in.branch) THEN "exists" ELSE "ok"
      [] k.pc = "delete" ->
            IF k.in.branch = Main THEN "forbidden" ELSE OkIf(BranchExists(r, k.in.branch))
      [] k.pc \in {"base", "paths"} -> OkIf(BothExist(r, k))
      [] k.pc = "merge" ->
            IF BothExist(r, k) /\ ~IsClean(r, k.in.target) THEN "unclean"
            ELSE IF BothExist(r, k) /\ MergeConflicts(r, k.in.source, k.in.target) # {}
            THEN "conflict" ELSE OkIf(BothExist(r, k))

(* What a reply "ok" has with it.                                          *)
Body(r, k) ==
    CASE k.pc \in {"head", "source_head", "target_head"} -> GetBranchHead(r, BranchOf(k))
      [] k.pc = "get"   -> Visible(r, RefOf(k))[PathOf(k)]
      [] k.pc = "list"  -> Listed(r, RefOf(k))
      [] k.pc = "base"  -> MergeBase(r, k.in.source, k.in.target)
      [] k.pc = "paths" -> MergeConflicts(r, k.in.source, k.in.target)
      [] OTHER -> NoAnswer

(* Mutant: a new object instead of the old one with a row more.            *)
RowAlone(x, obj) == WithRow(Absent, x.artifact, 0)

(* What AddIndexRow() and RemoveIndexRow() make of an index object.        *)
NewRows(x, obj) == IF x.kind = "add_row" THEN WithRow(obj, x.artifact, 0)
                   ELSE WithoutRow(obj, x.artifact)

ValueOf(k) == IF k.in.kind \in IndexCalls THEN NewRows(k.in, k.note) ELSE k.in.value

Applies(r, k) == k.pc \in Writes /\ Reply(r, k) = "ok"

Effect(r, k) ==
    IF ~Applies(r, k) THEN r
    ELSE CASE k.pc = "create" ->
                CreateBranch(r, k.in.branch,
                             IF k.in.base = Main THEN r.head[Main] ELSE k.in.base)
           [] k.pc = "delete"        -> DeleteBranch(r, k.in.branch)
           [] k.pc = "put"           -> PutObject(r, k.in.branch, PathOf(k), ValueOf(k))
           [] k.pc = "delete_object" -> DeleteObject(r, k.in.branch, PathOf(k))
           [] k.pc = "commit"        -> Commit(r, k.in.branch)
           [] k.pc = "merge"         -> Merge(r, k.in.source, k.in.target)

(* An index object is put by someone who has not read all that is there.   *)
Careless(r, k) ==
    /\ k.in.kind \in IndexCalls /\ k.pc = "put" /\ Applies(r, k)
    /\ ResolveState(r, k.in.branch)[IndexPath] # k.note

-----------------------------------------------------------------------------
(* The answer the interface promises of a call made in one moment; several *)
(* where it leaves the order of its checks open, and "Gone" where there is *)
(* nothing left to delete.  The report on a conflict, what is listed and   *)
(* the new commit are another matter.                                      *)
Promised(r, x) ==
    CASE x.kind = "create" ->
            {IF BranchExists(r, x.branch) THEN <<"AlreadyExists">>
             ELSE IF x.base # Main /\ ~CommitExists(r, x.base) THEN <<"NotFound">>
             ELSE <<"OK">>}
      [] x.kind = "delete" ->
            {IF x.branch = Main THEN <<"FailedPrecondition">>
             ELSE IF BranchExists(r, x.branch) THEN <<"OK">> ELSE <<"NotFound">>}
      [] x.kind = "head" ->
            {IF BranchExists(r, x.branch) THEN <<"OK", r.head[x.branch]>> ELSE <<"NotFound">>}
      [] x.kind = "get" ->
            {IF x.path \in Listed(r, x.ref) THEN <<"OK", Visible(r, x.ref)[x.path]>>
             ELSE <<"NotFound">>}
      [] x.kind = "list" -> {IF RefExists(r, x.ref) THEN <<"OK">> ELSE <<"NotFound">>}
      [] x.kind = "delete_object" ->
            {IF BranchExists(r, x.branch) THEN <<"OK">> ELSE <<"NotFound">>}
                \cup {<<"Gone">> : y \in {x.path} \ Listed(r, x.branch)}
      [] x.kind = "merge" ->
            LET gone    == {b \in {x.source, x.target} : ~BranchExists(r, b)}
                unclean == {b \in {x.source, x.target} \ gone : ~IsClean(r, b)}
            IN  {<<"NotFound">> : b \in gone} \cup {<<"FailedPrecondition">> : b \in unclean}
                \cup IF gone # {} \/ x.target \in unclean THEN {}
                     ELSE {IF MergeConflicts(r, x.source, x.target) # {} THEN <<"Conflict">>
                           ELSE <<"OK">>}
      [] OTHER ->
            {IF BranchExists(r, x.branch) THEN <<"OK">> ELSE <<"NotFound">>}

Observe ==
    /\ seen' = [c \in Clients |->
            IF call'[c].pc = "done" THEN seen[c]
            ELSE (IF Running(c) THEN seen[c] ELSE {}) \cup Promised(repo', call'[c].in)]
    /\ listable' = [c \in Clients |->
            IF call'[c].pc = "done" \/ call'[c].in.kind # "list" THEN listable[c]
            ELSE LET now == Listed(repo', call'[c].in.ref)
                 IN  IF Running(c) THEN [always |-> listable[c].always \cap now,
                                         ever |-> listable[c].ever \cup now]
                     ELSE [always |-> now, ever |-> now]]

-----------------------------------------------------------------------------
(* The calls: how each goes on after the reply to a request.               *)

GoOn(k, pc, note) == [k EXCEPT !.pc = pc, !.note = note]
Finish(k, answer) == [k EXCEPT !.pc = "done", !.note = NoAnswer, !.answer = answer]

(* HttpStatusToAbsl(), and the codes the calls map themselves.             *)
Status == [ok |-> "OK", not_found |-> "NotFound", exists |-> "AlreadyExists",
           forbidden |-> "FailedPrecondition", unclean |-> "FailedPrecondition",
           conflict |-> "Conflict", failed |-> "Failed"]
Answer(k, reply) == Finish(k, <<Status[reply]>>)

(* Mutant: a branch that is there already will do.                         *)
CreateBranchOrFind(k, reply) ==
    CASE k.pc = "exists" -> IF reply = "not_found" THEN GoOn(k, "commit_exists", NoAnswer)
                            ELSE Answer(k, reply)
      [] k.pc = "commit_exists" ->
            IF reply = "ok" \/ (reply = "not_found" /\ k.in.base = Main)
            THEN GoOn(k, "create", NoAnswer) ELSE Answer(k, reply)
      [] k.pc = "create" -> Answer(k, IF reply = "exists" THEN "ok" ELSE reply)

(* Is it a branch, is the base a commit (no branch has the name of one),   *)
(* then the POST, which finds a branch that was created meanwhile.         *)
CreateBranchGoesOn(k, reply) ==
    CASE k.pc = "exists" -> IF reply = "not_found" THEN GoOn(k, "commit_exists", NoAnswer)
                            ELSE Answer(k, IF reply = "ok" THEN "exists" ELSE reply)
      [] k.pc = "commit_exists" ->
            IF reply = "ok" \/ (reply = "not_found" /\ k.in.base = Main)
            THEN GoOn(k, "create", NoAnswer) ELSE Answer(k, reply)
      [] k.pc = "create" -> Answer(k, reply)

GetBranchHeadGoesOn(k, reply, body) ==
    Finish(k, IF reply = "ok" THEN <<"OK", body>> ELSE <<Status[reply]>>)

(* ResolveRefKind(), then the object.                                      *)
GetObjectGoesOn(k, reply, body) ==
    IF k.pc = "ref" /\ reply = "ok" THEN GoOn(k, "get", NoAnswer)
    ELSE Finish(k, IF reply = "ok" THEN <<"OK", body>> ELSE <<Status[reply]>>)

(* Mutant: it is not asked whether there is a branch.                      *)
DeleteObjectAnyway(k, reply) ==
    IF k.pc = "exists" THEN GoOn(k, "delete_object", NoAnswer)
    ELSE Answer(k, IF reply = "not_found" THEN "ok" ELSE reply)

(* That there was no object is fine.                                       *)
DeleteObjectGoesOn(k, reply) ==
    IF k.pc = "exists" /\ reply = "ok" THEN GoOn(k, "delete_object", NoAnswer)
    ELSE Answer(k, IF k.pc = "delete_object" /\ reply = "not_found" THEN "ok" ELSE reply)

(* Mutant: a page begins at the number of entries so far.                  *)
RestByOffset(listed, page) ==
    {p \in listed : Cardinality({q \in listed : q < p}) >= Cardinality(page.found)}

(* A listing comes in pages of one entry.  A page has what is listed after *)
(* the last entry of the one before.                                       *)
Rest(listed, page) == {p \in listed : p > page.after}

FirstPage == [found |-> {}, after |-> 0]
NextPage(listed, page) ==
    LET rest == Rest(listed, page)
    IN  IF rest = {} THEN page
        ELSE [found |-> page.found \cup {Min(rest)}, after |-> Min(rest)]
IsLast(listed, page) == Cardinality(Rest(listed, page)) <= 1

ListObjectsGoesOn(k, reply, body) ==
    IF reply # "ok" THEN Answer(k, reply)
    ELSE IF k.pc = "ref" THEN GoOn(k, "list", FirstPage)
    ELSE IF IsLast(body, k.note) THEN Finish(k, <<"OK", NextPage(body, k.note).found>>)
    ELSE GoOn(k, "list", NextPage(body, k.note))

(* Mutant: the heads first.                                                *)
HeadsFirst == <<"source_head", "target_head", "base", "paths">>

(* After the server has reported a conflict the client asks for its        *)
(* details, one after the other.                                           *)
ReportSteps == <<"base", "paths", "source_head", "target_head">>
NoReport == [base |-> 0, paths |-> FirstPage, source_head |-> 0, target_head |-> 0]

ReportGoesOn(k, reply, body) ==
    LET n == CHOOSE n \in DOMAIN ReportSteps : ReportSteps[n] = k.pc
        report == [k.note EXCEPT ![k.pc] = IF k.pc = "paths" THEN NextPage(body, @) ELSE body]
    IN  IF reply # "ok" THEN Answer(k, reply)
        ELSE IF k.pc = "paths" /\ ~IsLast(body, k.note.paths) THEN GoOn(k, "paths", report)
        ELSE IF n = Len(ReportSteps) THEN Finish(k, <<"Conflict", report>>)
        ELSE GoOn(k, ReportSteps[n + 1], report)

(* Neither branch may have uncommitted changes; then the POST.             *)
MergeGoesOn(k, reply, body) ==
    CASE k.pc = "source_clean" ->
            IF reply = "ok" THEN GoOn(k, "target_clean", NoAnswer) ELSE Answer(k, reply)
      [] k.pc = "target_clean" ->
            IF reply = "ok" THEN GoOn(k, "merge", NoAnswer) ELSE Answer(k, reply)
      [] k.pc = "merge" ->
            IF reply = "conflict" THEN GoOn(k, ReportSteps[1], NoReport) ELSE Answer(k, reply)
      [] OTHER -> ReportGoesOn(k, reply, body)

(* AddIndexRow() and RemoveIndexRow() read the index object, change it and *)
(* put it.  An object that cannot be read, for whatever reason, counts as  *)
(* one without rows, and a removal always succeeds.                        *)
AddIndexRowGoesOn(k, reply, body) ==
    CASE k.pc = "ref" -> IF reply = "ok" THEN GoOn(k, "get", NoAnswer)
                         ELSE GoOn(k, "put", Absent)
      [] k.pc = "get" -> IF reply # "ok" THEN GoOn(k, "put", Absent)
                         ELSE IF k.in.artifact \in DOMAIN Rows(body)
                         THEN Finish(k, <<"InvalidArgument">>)
                         ELSE GoOn(k, "put", body)
      [] k.pc = "put" -> Answer(k, reply)

RemoveIndexRowGoesOn(k, reply, body) ==
    CASE k.pc = "ref" /\ reply = "ok" -> GoOn(k, "get", NoAnswer)
      [] k.pc = "get" /\ reply = "ok" -> GoOn(k, "put", body)
      [] OTHER -> Answer(k, "ok")

GoesOn(k, reply, body) ==
    CASE k.in.kind \in {"delete", "put", "commit"} -> Answer(k, reply)
      [] k.in.kind = "head"          -> GetBranchHeadGoesOn(k, reply, body)
      [] k.in.kind = "create"        -> CreateBranchGoesOn(k, reply)
      [] k.in.kind = "get"           -> GetObjectGoesOn(k, reply, body)
      [] k.in.kind = "delete_object" -> DeleteObjectGoesOn(k, reply)
      [] k.in.kind = "list"          -> ListObjectsGoesOn(k, reply, body)
      [] k.in.kind = "merge"         -> MergeGoesOn(k, reply, body)
      [] k.in.kind = "add_row"       -> AddIndexRowGoesOn(k, reply, body)
      [] k.in.kind = "remove_row"    -> RemoveIndexRowGoesOn(k, reply, body)

FirstRequest(kind) ==
    CASE kind \in {"delete", "put", "commit", "head"}         -> kind
      [] kind \in {"create", "delete_object"}                -> "exists"
      [] kind \in {"get", "list", "add_row", "remove_row"}   -> "ref"
      [] kind = "merge"                                      -> "source_clean"

-----------------------------------------------------------------------------
(* The steps.                                                              *)

Init ==
    /\ \E sc \in Scenarios :
        /\ repo = sc.repo
        /\ bounds = [calls |-> sc.calls, number |-> sc.number, faults |-> sc.faults]
    /\ call = [c \in Clients |-> NoCall]
    /\ adrift = {}
    /\ seen = [c \in Clients |-> {}]
    /\ listable = [c \in Clients |-> [always |-> {}, ever |-> {}]]
    /\ deleted = FALSE /\ careless = FALSE

Invoke(c, x) ==
    /\ ~Running(c) /\ bounds.number > 0
    /\ bounds' = [bounds EXCEPT !.number = @ - 1]
    /\ call' = [call EXCEPT ![c] = [in |-> x, pc |-> FirstRequest(x.kind),
                    note |-> NoAnswer, answer |-> NoAnswer, applied |-> 0]]
    /\ UNCHANGED <<repo, adrift, deleted, careless>>
    /\ Observe

Served(k) ==
    /\ repo' = Effect(repo, k)
    /\ deleted' = (deleted \/ (k.pc = "delete" /\ Applies(repo, k)))
    /\ careless' = (careless \/ Careless(repo, k))

(* DoRequest(), DoUpload(): the request is served, or it fails: it does    *)
(* not arrive, its reply does not, or the client no longer waits for it.   *)
DoRequest(c) ==
    LET k == call[c]
        next(after, n) == call' = [call EXCEPT ![c] = [after EXCEPT !.applied = @ + n]]
        done == IF Applies(repo, k) THEN 1 ELSE 0
        failed == GoesOn(k, "failed", NoAnswer)
    IN  /\ Running(c)
        /\ \/ /\ Served(k)
              /\ next(GoesOn(k, Reply(repo, k),
                             IF Reply(repo, k) = "ok" THEN Body(repo, k) ELSE NoAnswer), done)
              /\ UNCHANGED <<bounds, adrift>>
           \/ /\ bounds.faults > 0
              /\ bounds' = [bounds EXCEPT !.faults = @ - 1]
              /\ \/ next(failed, 0) /\ UNCHANGED <<repo, adrift, deleted, careless>>
                 \/ done = 1 /\ Served(k) /\ next(failed, 1) /\ UNCHANGED adrift
                 \/ /\ k.pc \in Writes
                    /\ adrift' = adrift \cup {[in |-> k.in, pc |-> k.pc, note |-> k.note]}
                    /\ next(failed, 0) /\ UNCHANGED <<repo, deleted, careless>>
        /\ Observe

(* The server serves a request that was given up.                          *)
ServeLate(k) ==
    /\ Served(k)
    /\ adrift' = adrift \ {k}
    /\ UNCHANGED <<call, bounds>>
    /\ Observe

Next ==
    \/ \E c \in Clients : DoRequest(c) \/ \E x \in bounds.calls : Invoke(c, x)
    \/ \E k \in adrift : ServeLate(k)

Spec == Init /\ [][Next]_vars

-----------------------------------------------------------------------------
(* Correctness.                                                            *)

Answered(c) == call[c].pc = "done" /\ call[c].answer # NoAnswer

(* A call behaves as if it were made in one moment: whatever others did    *)
(* between its requests, an answer other than a failure is one that the    *)
(* store would have given at some moment of the call.                      *)
AnswersAsPromised ==
    \A c \in Clients :
        LET answer == call[c].answer
        IN  Answered(c) /\ call[c].in.kind \notin IndexCalls /\ answer # <<"Failed">> =>
                (IF answer[1] = "OK" /\ call[c].in.kind \in {"head", "get"} THEN answer
                 ELSE <<answer[1]>>) \in seen[c]

(* An answer says what happened: after OK the call has had its effect,     *)
(* once, and after an error other than a failure it has had none and never *)
(* will.  An object that was to be deleted may have gone before.           *)
AnswersTell ==
    \A c \in Clients :
        LET x == call[c].in
            answer == call[c].answer[1]
        IN  Answered(c) /\ x.kind \in Writes =>
            /\ answer = "OK" => \/ call[c].applied = 1
                                \/ x.kind = "delete_object" /\ <<"Gone">> \in seen[c]
            /\ answer \notin {"OK", "Failed"} => call[c].applied = 0

(* A resolver can work with the report on a conflict although its details  *)
(* were read at different moments: the base is an ancestor of both heads.  *)
(* Transactions have names of their own, so that a branch is not deleted   *)
(* and created again meanwhile.                                            *)
ReportIsUsable ==
    \A c \in Clients :
        Answered(c) /\ call[c].answer[1] = "Conflict" /\ ~deleted =>
            LET report == call[c].answer[2]
            IN  report.base \in CommonAncestors(repo, report.source_head,
                                                report.target_head)

(* A listing in pages has everything that was there all the time, and      *)
(* nothing that never was.                                                 *)
ListsWhatIsThere ==
    \A c \in Clients :
        Answered(c) /\ call[c].in.kind = "list" /\ call[c].answer[1] = "OK" =>
            /\ listable[c].always \subseteq call[c].answer[2]
            /\ call[c].answer[2] \subseteq listable[c].ever

(* The canonical branch only loses index rows that someone removed, unless *)
(* an index object was put by a client that had failed to read it, or had  *)
(* read it before another one's update.                                    *)
MainRows(r) == DOMAIN Rows(AtCommit(r, GetBranchHead(r, Main))[IndexPath])

RowsOnlyRemoved ==
    [][careless \/ MainRows(repo) \ Removed(bounds.calls) \subseteq MainRows(repo')]_vars
=============================================================================
