------------------------------- MODULE Wheels -------------------------------
(***************************************************************************)
(* What goes into one directory of libraries (libs/lock.go, wheel.go,      *)
(* plan.go, extract.go): the lock is parsed, matched with the wheels of    *)
(* the pin, and every wheel is extracted, all headers of a wheel before    *)
(* its first byte; then the manifest is written and everything verified.   *)
(* Names are short paths, sizes are chunks; fold(x) merges "a" and "A".    *)
(***************************************************************************)
EXTENDS Integers, Sequences, FiniteSets

CONSTANTS LockLines,       \* raw lines of a lock that are tried
          MaxLines,        \* lines of a lock
          WheelFiles,      \* wheels of the pin that are tried
          Headers,         \* zip entries of a wheel that are tried
          MaxEntries,      \* entries in one wheel (also Limits.MaxWheelEntries)
          MaxLockFiles, MaxFileBytes, MaxWheelBytes, MaxLockBytes    \* Limits

ASSUME WheelsAssumption ==
    /\ MaxLockFiles \in Nat /\ MaxLockBytes \in Nat
    /\ \A h \in Headers : /\ h.path \in Seq(STRING) /\ h.dir \in BOOLEAN
                          /\ h.size \in Nat /\ h.good \in BOOLEAN

VARIABLES wheelAt,        \* "lock", "headers", "files", "sealed", or why it failed
          lockRead,  \* the lock as read so far: the locals of ParseLock, raw lines read
          plan,      \* the wheels of the lock
          doneLines,      \* those that are extracted
          todo,      \* checked entries of this wheel that are still to be written
          seen,      \* extractor.seen: path to whether it is a directory
          files,     \* extractor.files, a count
          wheelSum, lockSum,   \* bytes of this wheel, of the lock
          tree,      \* on disk in the staging directory: path to size, or Dir
          manifest   \* extractor.datas and dirs

wheelVars == <<wheelAt, lockRead, plan, doneLines, todo, seen, files, wheelSum, lockSum, tree, manifest>>

Refusals == {"libs_invalid", "libs_platform", "libs_too_large"}
Dir == -1      \* in place of a size

-----------------------------------------------------------------------------
(* The lock: raw lines [says, cont]; says is "" (blank or comment), an entry
   [name, version, hashes], "bad" (anything else), or "--hash" of a second line *)

\* parseEntry: name==version first, then one or more hashes, none twice.
EntryOk(l) == /\ l[1][1] = "name" /\ Len(l) > 1
              /\ \A i \in 2 .. Len(l) : l[i][1] = "hash"
              /\ \A i, j \in 2 .. Len(l) : l[i] = l[j] => i = j

NothingRead == [entries |-> {}, cur |-> <<>>, cont |-> FALSE, valid |-> TRUE, read |-> 0]

\* A raw line; as long as it ends with a backslash the next one goes on with it,
\* else it is flushed: nothing, an entry with a new name, or invalid.
Line(lk, r) ==
    LET cur == IF r.says = <<>> THEN lk.cur ELSE Append(lk.cur, r.says)
        flush == ~r.cont /\ cur # <<>>
        e == [name |-> cur[1][2], version |-> cur[1][3]]
        good == EntryOk(cur) /\ \A f \in lk.entries : f.name # e.name
    IN  [entries |-> IF flush /\ good THEN lk.entries \cup {e} ELSE lk.entries,
         cur |-> IF r.cont THEN cur ELSE <<>>, cont |-> r.cont,
         valid |-> lk.valid /\ (flush => good), read |-> lk.read + 1]

\* The entries, or the empty set for an invalid lock.
ParseLock(lk) == IF lk.valid /\ ~lk.cont THEN lk.entries ELSE {}

-----------------------------------------------------------------------------
(* Names of wheels: [name, version, tags], a set of <<python, abi, platform>> *)

PyTags == {"py3", "py312"}     \* of py3, py30 .. py312
Linux == {"manylinux2014", "manylinux_2_41"}    \* up to the glibc of the image
tagAllowed(py, abi, plat) ==
    \/ plat = "any" /\ abi = "none" /\ py \in PyTags \cup {"cp312"}
    \/ /\ plat \in Linux
       /\ \/ abi = "cp312" /\ py = "cp312"
          \/ abi = "abi3" /\ py \in {"cp32", "cp312"}
          \/ abi = "none" /\ py \in PyTags \cup {"cp312"}

anyTagAllowed(w) == \E t \in w.tags : tagAllowed(t[1], t[2], t[3])

\* Every wheel has its entry and every entry one wheel of its version.
Matched(entries, ws) ==
    /\ \A w \in ws : \E e \in entries : e.name = w.name /\ e.version = w.version
    /\ \A v, w \in ws : v.name = w.name => v = w
    /\ \A e \in entries : \E w \in ws : w.name = e.name
NewPlan(entries, ws) ==
    IF entries = {} THEN "libs_invalid"
    ELSE IF \E w \in ws : ~anyTagAllowed(w) THEN "libs_platform"
    ELSE IF ~Matched(entries, ws) THEN "libs_invalid" ELSE "headers"

-----------------------------------------------------------------------------
(* Names inside the wheels: paths of segments *)

Fold(path) == [i \in DOMAIN path |-> IF path[i] = "A" THEN "a" ELSE path[i]]
Upto(path, n) == SubSeq(path, 1, n)
Parents(path) == {Upto(path, n) : n \in 1 .. Len(path) - 1}
Proper(path) == path # <<>> /\ \A i \in DOMAIN path : path[i] \notin {"", ".", ".."}

\* What register adds to seen for this entry: all its parents and itself.
Names(path, dir) == [p \in Parents(path) \cup {path} |-> p # path \/ dir]

\* Deviation: only the path itself is compared with what came before.
RegisterableLast(path, dir) ==
    /\ Fold(Upto(path, 1)) # <<"manifest">>
    /\ \A q \in DOMAIN seen : Fold(q) = Fold(path) => q = path /\ seen[q] /\ dir

\* register refuses the reserved name, a name that differs in case only, a
\* file against a directory, and a file that comes twice.
Registerable(path, dir) ==
    /\ Fold(Upto(path, 1)) # <<"manifest">>
    /\ \A p \in DOMAIN Names(path, dir), q \in DOMAIN seen :
          Fold(p) = Fold(q) => p = q /\ seen[q] /\ Names(path, dir)[p]

\* The verdict of checkHeader: flags, method and type are one field, good.
HeaderVerdict(h) ==
    IF \/ ~h.good \/ ~Proper(h.path)
       \/ h.dir /\ h.size > 0 THEN "libs_invalid"
    ELSE IF ~h.dir /\ (h.size > MaxFileBytes \/ files >= MaxLockFiles) THEN "libs_too_large"
    ELSE IF ~Registerable(h.path, h.dir) THEN "libs_invalid" ELSE "ok"

-----------------------------------------------------------------------------
WheelsInit ==
    /\ wheelAt = "lock" /\ lockRead = NothingRead /\ plan = {} /\ doneLines = {} /\ todo = <<>>
    /\ seen = <<>> /\ files = 0 /\ wheelSum = 0 /\ lockSum = 0
    /\ tree = <<>> /\ manifest = <<>>

WheelFails(why) == wheelAt' = why /\ UNCHANGED <<lockRead, plan>>

ReadLine ==
    /\ wheelAt = "lock" /\ lockRead.read < MaxLines
    /\ \E l \in LockLines : lockRead' = Line(lockRead, l)
    /\ UNCHANGED <<wheelAt, plan, doneLines, todo, seen, files, wheelSum, lockSum, tree, manifest>>

\* The lock and the names of the wheels; the wheels go in the order of their names.
MakePlan ==
    /\ wheelAt = "lock"
    /\ \E ws \in SUBSET WheelFiles :
          LET v == NewPlan(ParseLock(lockRead), ws) IN
          /\ wheelAt' = v
          /\ plan' = IF v = "headers" THEN ws ELSE {}
    /\ UNCHANGED <<lockRead, doneLines, todo, seen, files, wheelSum, lockSum, tree, manifest>>

\* checkStructure bounds the number of entries before anything is read.
ReadHeader ==
    /\ wheelAt = "headers"
    /\ \E h \in Headers :
         LET v == HeaderVerdict(h) IN
         /\ IF v = "ok" /\ Len(todo) < MaxEntries
            THEN /\ todo' = Append(todo, h)
                 /\ seen' = [p \in DOMAIN seen \cup DOMAIN Names(h.path, h.dir) |->
                               IF p \in DOMAIN seen THEN seen[p] ELSE Names(h.path, h.dir)[p]]
                 /\ files' = IF h.dir THEN files ELSE files + 1
                 /\ UNCHANGED <<wheelAt, lockRead, plan>>
            ELSE /\ WheelFails(IF v = "ok" THEN "libs_too_large" ELSE v)
                 /\ UNCHANGED <<todo, seen, files>>
    /\ UNCHANGED <<doneLines, wheelSum, lockSum, tree, manifest>>

HeadersDone ==
    /\ wheelAt = "headers" /\ todo # <<>>
    /\ wheelAt' = "files" /\ wheelSum' = 0
    /\ UNCHANGED <<lockRead, plan, doneLines, todo, seen, files, lockSum, tree, manifest>>

\* mkParents, markDirs: a directory with all its parents, in the manifest.
Made(h) ==
    [p \in DOMAIN manifest \cup Parents(h.path) \cup {h.path} |->
       IF p \in DOMAIN manifest THEN manifest[p] ELSE IF p # h.path \/ h.dir THEN Dir ELSE 0]

OnDisk(h) == [p \in DOMAIN tree \cup Parents(h.path) \cup {h.path} |->
                IF p \in DOMAIN tree THEN tree[p] ELSE IF p # h.path \/ h.dir THEN Dir ELSE 0]

\* checkRunning, after each chunk that was read and before it is written.
TooMuch(n) == n > MaxFileBytes \/ wheelSum + 1 > MaxWheelBytes \/ lockSum + 1 > MaxLockBytes

\* An entry is created with its parents; the head of a header is not believed,
\* so a file may hold more than it said.
WriteFile ==
    LET h == Head(todo) IN
    /\ wheelAt = "files" /\ todo # <<>>
    /\ \/ /\ h.path \notin DOMAIN tree \/ h.dir
          /\ tree' = OnDisk(h) /\ manifest' = Made(h)
          /\ todo' = IF h.dir THEN Tail(todo) ELSE todo
          /\ UNCHANGED <<wheelAt, lockRead, plan, wheelSum, lockSum>>
       \/ /\ h.path \in DOMAIN tree /\ ~h.dir      \* the next chunk
          /\ IF TooMuch(tree[h.path] + 1)
             THEN WheelFails("libs_too_large") /\ UNCHANGED <<tree, wheelSum, lockSum>>
             ELSE /\ tree' = [tree EXCEPT ![h.path] = @ + 1]
                  /\ wheelSum' = wheelSum + 1 /\ lockSum' = lockSum + 1
                  /\ UNCHANGED <<wheelAt, lockRead, plan>>
          /\ UNCHANGED <<todo, manifest>>
       \/ /\ h.path \in DOMAIN tree /\ ~h.dir      \* its end
          /\ manifest' = [manifest EXCEPT ![h.path] = tree[h.path]]
          /\ todo' = Tail(todo)
          /\ UNCHANGED <<wheelAt, lockRead, plan, tree, wheelSum, lockSum>>
    /\ UNCHANGED <<doneLines, seen, files>>

\* What is on disk is what the manifest says, no more and no less.
VerifyDir == tree = manifest

\* The next wheel, or the manifest, the modes and verifyDir.
WheelDone ==
    /\ wheelAt = "files" /\ todo = <<>>
    /\ \E w \in plan \ doneLines : doneLines' = doneLines \cup {w}
    /\ wheelAt' = IF doneLines' # plan THEN "headers" ELSE IF VerifyDir THEN "sealed" ELSE "libs_invalid"
    /\ UNCHANGED <<lockRead, plan, todo, seen, files, wheelSum, lockSum, tree, manifest>>

\* build removes the staging directory; the next plan begins anew.
Discard ==
    /\ wheelAt \in Refusals \cup {"sealed"}
    /\ wheelAt' = "lock" /\ lockRead' = NothingRead /\ plan' = {} /\ doneLines' = {} /\ todo' = <<>>
    /\ seen' = <<>> /\ files' = 0 /\ wheelSum' = 0 /\ lockSum' = 0
    /\ tree' = <<>> /\ manifest' = <<>>

WheelsNext == ReadLine \/ MakePlan \/ ReadHeader \/ HeadersDone \/ WriteFile \/ WheelDone \/ Discard

WheelsSpec == WheelsInit /\ [][WheelsNext]_wheelVars
-----------------------------------------------------------------------------
\* Two names that a file system without case would take for one, or a name
\* below a file.
Clash(p, q) == Fold(p) = Fold(q) /\ p # q

\* What the run relies on: verifyDir never refuses what was extracted, and the
\* tree that is sealed has no two names that clash, no reserved name, nothing
\* below a file, keeps every limit, and holds exactly the wheels of the lock,
\* one per entry.
SealedIsSound ==
    /\ lockSum <= MaxLockBytes
    /\ wheelAt = "files" /\ todo = <<>> => tree = manifest
    /\ wheelAt = "sealed" =>
        /\ \A p, q \in DOMAIN tree : ~Clash(p, q)
        /\ \A p \in DOMAIN tree : Proper(p) /\ \A q \in Parents(p) : tree[q] = Dir
        /\ <<"manifest">> \notin {Fold(p) : p \in DOMAIN tree}
        /\ Cardinality({p \in DOMAIN tree : tree[p] # Dir}) <= MaxLockFiles
        /\ \A w \in doneLines : \E e \in lockRead.entries : e.name = w.name /\ e.version = w.version
        /\ \A e \in lockRead.entries : \E w \in doneLines :
              /\ w.name = e.name /\ w.version = e.version
              /\ \A v \in doneLines : v.name = e.name => v = w
=============================================================================
