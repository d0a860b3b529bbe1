--------------------------- MODULE SandboxProofs ---------------------------
(***************************************************************************)
(* Proofs about Sandbox, for any number of containers, requests,           *)
(* connections, frames and upsets.                                         *)
(*                                                                         *)
(* That two scripts never live at once, and that a request is answered     *)
(* with the end of its own script, both rest on the life of a connection:  *)
(* it has one guard, is queued, then current, carries one job, and keeps   *)
(* the place until the guard has hung up.  IInv says this per connection,  *)
(* per guard and per request.                                              *)
(***************************************************************************)
EXTENDS Sandbox, TLAPS

In(f, s) == \E i \in 1 .. Len(s) : s[i] = f

Held(k) == \E g \in Guards : guard[g].conn = k

(* A guard without a connection is off or dials; one that waits has no     *)
(* script yet; the script of one that runs is the job it took.  Here r is  *)
(* the guard and c its connection.                                         *)
GuardShape(r, c) ==
    /\ r.at \in {"off", "dial"} <=> r.conn = None
    /\ r.at = "wait" => c.ran = None
    /\ r.at \in {"script", "kill"} => c.ran # None
    /\ r.at = "script" => r.job \in Calls /\ c.ran = Run(r.job, "alive")

(* Two guards never have one connection; the guard's end is open exactly   *)
(* while a guard has it.                                                   *)
HolderShape ==
    /\ \A k \in Conns : conn[k].open <=> Held(k)
    /\ \A g, h \in Guards : guard[g].conn = guard[h].conn /\ guard[g].conn # None => g = h

(* A connection that is new to the mediator, or idle, carries nothing; its *)
(* end is the last that comes from it; what it says of the end of a script,*)
(* and to whom that belongs, agrees with its one run.                      *)
ConnShape(c, isIdle) ==
    /\ c.at \in {"queued", "hello"} => ~ isIdle
    /\ c.at \in {"queued", "hello"} \/ isIdle => c.att = None /\ c.job = None /\ c.ran = None
    /\ In("eof", c.up) => ~ c.open
    /\ c.at = "gone" /\ c.att # None => ~ c.open
    /\ c.att # None /\ c.ran # None => c.ran.by = c.att
    /\ c.att # None /\ c.job # None => c.job = c.att
    /\ \A e \in Exits : In(e, c.up) => c.ran # None /\ c.ran.as = e

(* What waits in the backlog is queued, and waits once.                    *)
BacklogShape ==
    /\ \A i \in 1 .. Len(backlog) : conn[backlog[i]].at = "queued"
    /\ \A i, j \in 1 .. Len(backlog) : backlog[i] = backlog[j] => i = j

(* A request has a connection from the moment it is attached; an end in    *)
(* its inbox is that of its own script; its approval is gone only while it *)
(* waits.                                                                  *)
PlaceShape(q) == /\ q.pc \in {"idle", "wait"} <=> q.conn = None
                 /\ q.conn = None => q.inbox = <<>>
                 /\ q.stale => q.pc = "wait"
InboxShape(c) == \A e \in {"ok", "error"} :
                    call[c].conn # None /\ In(e, call[c].inbox) => conn[call[c].conn].ran = Run(c, e)

IInv == /\ TypeOK
        /\ \A g \in Guards : GuardShape(guard[g], conn[guard[g].conn])
        /\ HolderShape
        /\ \A k \in Conns : ConnShape(conn[k], idle = k)
        /\ BacklogShape
        /\ \A c \in Calls : PlaceShape(call[c]) /\ InboxShape(c)
        /\ honest
        /\ approved => \A c \in Calls : ~ call[c].stale

-----------------------------------------------------------------------------
(* Sequences.                                                              *)

LEMMA AppendedFrame ==
    ASSUME NEW s \in Seq(Frames), NEW x \in Frames
    PROVE  /\ Append(s, x) \in Seq(Frames)
           /\ \A f : In(f, Append(s, x)) <=> In(f, s) \/ f = x
<1>1. Append(s, x) \in Seq(Frames)
  OBVIOUS
<1>2. ASSUME NEW f PROVE In(f, Append(s, x)) <=> In(f, s) \/ f = x
  <2>1. Len(Append(s, x)) = Len(s) + 1 /\ Len(s) \in Nat
    OBVIOUS
  <2>2. \A i \in 1 .. Len(s) : Append(s, x)[i] = s[i]
    OBVIOUS
  <2>3. Append(s, x)[Len(s) + 1] = x
    OBVIOUS
  <2> QED
    BY <2>1, <2>2, <2>3 DEF In
<1> QED
  BY <1>1, <1>2

LEMMA FirstFrame ==
    ASSUME NEW s \in Seq(Frames), s # <<>>
    PROVE  /\ Head(s) \in Frames /\ In(Head(s), s)
           /\ Tail(s) \in Seq(Frames)
           /\ \A f : In(f, Tail(s)) => In(f, s)
<1>1. Len(s) \in Nat /\ Len(s) >= 1 /\ Head(s) = s[1] /\ s[1] \in Frames
  OBVIOUS
<1>2. Tail(s) \in Seq(Frames) /\ Len(Tail(s)) = Len(s) - 1
  OBVIOUS
<1>3. \A i \in 1 .. Len(Tail(s)) : Tail(s)[i] = s[i + 1] /\ i + 1 \in 1 .. Len(s)
  BY <1>1, <1>2
<1>4. ASSUME NEW f, In(f, Tail(s)) PROVE In(f, s)
  BY <1>3, <1>4 DEF In
<1> QED
  BY <1>1, <1>2, <1>4 DEF In

LEMMA NoFrame ==
    <<>> \in Seq(Frames) /\ \A f : ~ In(f, <<>>)
BY DEF In

LEMMA Hello ==
    <<"hello">> \in Seq(Frames) /\ \A f : In(f, <<"hello">>) <=> f = "hello"
BY DEF In, Frames

-----------------------------------------------------------------------------
(* Records.                                                                *)

LEMMA RunType ==
    ASSUME SandboxAssumption, NEW c \in Calls, NEW e \in Exits \cup {"alive"}
    PROVE  Run(c, e) \in Runs /\ Run(c, e) # None /\ Run(c, e).by = c /\ Run(c, e).as = e
BY DEF SandboxAssumption, Run, Runs

LEMMA ClosedType == ASSUME SandboxAssumption PROVE Closed \in ConnRecs
BY NoFrame DEF Closed, ConnRecs

LEMMA ConnFields ==
    ASSUME TypeOK, NEW k \in Conns
    PROVE  /\ conn[k] \in ConnRecs
           /\ conn[k].up \in Seq(Frames)
           /\ conn[k].att \in Calls \cup {None} /\ conn[k].job \in Calls \cup {None}
BY DEF TypeOK, ConnRecs

(* Two records that differ in what has come from the guard.                *)
Alike(c, d) == /\ c.at = d.at /\ c.job = d.job /\ c.shut = d.shut /\ c.open = d.open
               /\ c.lost = d.lost /\ c.att = d.att /\ c.fit = d.fit /\ c.ran = d.ran

(* What the guard sends is added at the end, or is lost.                   *)
LEMMA SentType ==
    ASSUME TypeOK, NEW k \in Conns, NEW f \in Frames
    PROVE  /\ Sent(k, f) \in ConnRecs /\ Alike(Sent(k, f), conn[k])
           /\ \A x : In(x, Sent(k, f).up) => In(x, conn[k].up) \/ x = f
<1>1. CASE conn[k].at = "gone"
  BY <1>1, ConnFields DEF Sent, Alike
<1>2. CASE conn[k].at # "gone"
  <2> DEFINE u == Append(conn[k].up, f)
  <2>1. Sent(k, f) = [conn[k] EXCEPT !.up = u]
    BY <1>2 DEF Sent
  <2>2. u \in Seq(Frames) /\ \A x : In(x, u) <=> In(x, conn[k].up) \/ x = f
    BY ConnFields, AppendedFrame
  <2>3. conn[k] \in ConnRecs
    BY ConnFields
  <2> HIDE DEF u
  <2>4. Sent(k, f).up = u /\ Sent(k, f) \in ConnRecs
    BY <2>1, <2>2, <2>3 DEF ConnRecs
  <2>5. Alike(Sent(k, f), conn[k])
    BY <2>1, <2>3 DEF ConnRecs, Alike
  <2> QED
    BY <2>2, <2>4, <2>5
<1> QED
  BY <1>1, <1>2

(* The guard hangs up: the record is gone, or ends with eof.               *)
LEMMA HungUpType ==
    ASSUME SandboxAssumption, TypeOK, NEW k \in Conns
    PROVE  /\ HungUp(k) \in ConnRecs /\ ~ HungUp(k).open
           /\ conn[k].at = "gone" => HungUp(k) = Closed
           /\ conn[k].at # "gone" => /\ Alike(HungUp(k), [conn[k] EXCEPT !.open = FALSE])
                                     /\ \A x : In(x, HungUp(k).up) => In(x, conn[k].up) \/ x = "eof"
<1>1. CASE conn[k].at = "gone"
  BY <1>1, ClosedType DEF HungUp, Closed
<1>2. CASE conn[k].at # "gone"
  <2> DEFINE c == Sent(k, "eof")
  <2>1. HungUp(k) = [c EXCEPT !.open = FALSE]
    BY <1>2 DEF HungUp
  <2>2. c \in ConnRecs /\ Alike(c, conn[k]) /\ \A x : In(x, c.up) => In(x, conn[k].up) \/ x = "eof"
    BY SentType DEF Frames
  <2>3. conn[k] \in ConnRecs
    BY ConnFields
  <2> HIDE DEF c
  <2> QED
    BY <1>2, <2>1, <2>2, <2>3 DEF ConnRecs, Alike
<1> QED
  BY <1>1, <1>2

-----------------------------------------------------------------------------
(* The initial state.                                                      *)

LEMMA Starts == SandboxAssumption /\ SandboxInit => IInv
<1> SUFFICES ASSUME SandboxAssumption, SandboxInit PROVE IInv
  OBVIOUS
<1> USE DEF SandboxInit
<1>1. TypeOK
  <2>1. Off \in GuardRecs /\ Quiet \in CallRecs
    BY NoFrame DEF Off, Quiet, GuardRecs, CallRecs, Ids, SandboxAssumption
  <2>2. conn \in [Conns -> ConnRecs]
    BY ClosedType
  <2>3. /\ \A k \in Conns : conn[k].at \in {"hello", "serving", "drain"} <=> current = k
        /\ \A k \in Conns, c \in Calls : conn[k].att = c <=> call[c].conn = k
    BY DEF Closed, Quiet, SandboxAssumption, Conns
  <2>4. upsets \in 0 .. MaxUpsets
    BY DEF SandboxAssumption
  <2>5. guard \in [Guards -> GuardRecs] /\ call \in [Calls -> CallRecs]
    BY <2>1
  <2>6. current \in Ids /\ idle \in Ids /\ backlog \in Seq(Conns)
    BY DEF Ids
  <2> QED
    BY <2>2, <2>3, <2>4, <2>5, <2>6 DEF TypeOK
<1>2. \A g \in Guards : GuardShape(guard[g], conn[guard[g].conn])
  BY DEF GuardShape, Off
<1>3. HolderShape
  BY DEF HolderShape, Held, Off, Closed, SandboxAssumption, Conns
<1>4. ASSUME NEW k \in Conns PROVE ConnShape(conn[k], idle = k)
  <2>1. conn[k] = Closed /\ idle # k
    BY DEF SandboxAssumption, Conns
  <2>2. /\ Closed.at = "gone" /\ Closed.att = None /\ Closed.up = <<>>
        /\ \A f : ~ In(f, Closed.up)
    BY NoFrame DEF Closed
  <2> QED
    BY <2>1, <2>2 DEF ConnShape
<1>5. BacklogShape
  BY DEF BacklogShape
<1>6. \A c \in Calls : PlaceShape(call[c]) /\ InboxShape(c) /\ ~ call[c].stale
  BY NoFrame DEF PlaceShape, InboxShape, Quiet
<1> QED
  BY <1>1, <1>2, <1>3, <1>4, <1>5, <1>6 DEF IInv

-----------------------------------------------------------------------------
(* Steps of a guard on its connection.                                     *)

(* A guard goes on to r and leaves d as its connection k.                  *)
MovesOn(g, k, r, d) ==
    /\ guard[g].conn = k /\ r \in GuardRecs /\ d \in ConnRecs
    /\ guard' = [guard EXCEPT ![g] = r] /\ conn' = [conn EXCEPT ![k] = d]
    /\ UNCHANGED <<slot, call, honest, approved, usable>> /\ upsets' \in 0 .. MaxUpsets
    /\ r.conn \in {k, None} /\ (d.open <=> r.conn # None)
    /\ d.at = conn[k].at /\ d.att = conn[k].att
    /\ GuardShape(r, d) /\ ConnShape(d, idle = k)
    /\ \A e \in {"ok", "error"}, c \in Calls :
          conn[k].att = c /\ conn[k].ran = Run(c, e) => d.ran = Run(c, e)

LEMMA OnConnection ==
    ASSUME SandboxAssumption, IInv, NEW g \in Guards, NEW k \in Conns, NEW r, NEW d,
           MovesOn(g, k, r, d)
    PROVE  IInv'
<1> USE DEF MovesOn
<1>k. k # None
  BY DEF SandboxAssumption
<1>f. /\ guard'[g] = r /\ \A h \in Guards \ {g} : guard'[h] = guard[h]
      /\ conn'[k] = d /\ \A j \in Conns \ {k} : conn'[j] = conn[j]
  BY <1>k DEF IInv, TypeOK
<1>o. \A h \in Guards \ {g} : guard[h].conn # k
  BY <1>k DEF IInv, HolderShape
<1>1. TypeOK'
  <2>1. guard' \in [Guards -> GuardRecs] /\ conn' \in [Conns -> ConnRecs]
    BY <1>k DEF IInv, TypeOK
  <2>2. \A j \in Conns : conn'[j].at = conn[j].at /\ conn'[j].att = conn[j].att
    BY <1>f
  <2> QED
    BY <2>1, <2>2 DEF IInv, TypeOK, slot
<1>2. ASSUME NEW h \in Guards PROVE GuardShape(guard[h], conn[guard[h].conn])'
  <2>1. CASE h = g
    <3>1. CASE r.conn = k
      BY <1>f, <2>1, <3>1
    <3>2. CASE r.conn = None
      BY <1>f, <2>1, <3>2 DEF GuardShape
    <3> QED
      BY <3>1, <3>2
  <2>2. CASE h # g /\ guard[h].conn = None
    BY <1>f, <2>2 DEF IInv, GuardShape
  <2>3. CASE h # g /\ guard[h].conn # None
    <3>1. guard[h].conn \in Conns \ {k}
      BY <1>o, <2>3 DEF IInv, TypeOK, GuardRecs, Ids
    <3> QED
      BY <1>f, <2>3, <3>1 DEF IInv
  <2> QED
    BY <2>1, <2>2, <2>3
<1>3. HolderShape'
  <2>1. ASSUME NEW j \in Conns PROVE conn'[j].open <=> Held(j)'
    <3>1. CASE j = k
      <4>1. Held(j)' <=> r.conn = k
        BY <1>f, <1>o, <3>1 DEF Held
      <4>2. r.conn = k <=> r.conn # None
        BY <1>k
      <4> QED
        BY <1>f, <3>1, <4>1, <4>2
    <3>2. CASE j # k
      <4>1. conn'[j] = conn[j] /\ r.conn # j /\ guard[g].conn # j
        BY <1>f, <1>k, <3>2 DEF SandboxAssumption
      <4>2. Held(j)' <=> Held(j)
        BY <1>f, <4>1 DEF Held
      <4> QED
        BY <4>1, <4>2 DEF IInv, HolderShape
    <3> QED
      BY <3>1, <3>2
  <2>2. ASSUME NEW h \in Guards, NEW i \in Guards, guard'[h].conn = guard'[i].conn, guard'[h].conn # None
        PROVE  h = i
    BY <1>f, <1>k, <1>o, <2>2 DEF IInv, HolderShape
  <2> QED
    BY <2>1, <2>2 DEF HolderShape
<1>4. \A j \in Conns : ConnShape(conn[j], idle = j)'
  BY <1>f, <1>k DEF IInv, slot
<1>5. BacklogShape'
  <2>1. \A j \in Conns : conn'[j].at = conn[j].at
    BY <1>f
  <2>2. \A i \in 1 .. Len(backlog) : backlog[i] \in Conns
    BY DEF IInv, TypeOK
  <2> QED
    BY <2>1, <2>2 DEF IInv, BacklogShape, slot
<1>6. ASSUME NEW c \in Calls PROVE (PlaceShape(call[c]) /\ InboxShape(c))'
  <2>1. CASE call[c].conn = k
    <3>1. ASSUME NEW e \in {"ok", "error"}, In(e, call[c].inbox)
          PROVE  d.ran = Run(c, e)
      BY <1>k, <2>1, <3>1 DEF IInv, InboxShape, TypeOK
    <3> QED
      BY <1>f, <2>1, <3>1 DEF IInv, InboxShape
  <2>2. CASE call[c].conn # k
    <3>1. call[c].conn # None => call[c].conn \in Conns \ {k}
      BY <2>2 DEF IInv, TypeOK, CallRecs, Ids
    <3> QED
      BY <1>f, <3>1 DEF IInv, InboxShape
  <2> QED
    BY <2>1, <2>2
<1> QED
  BY <1>1, <1>2, <1>3, <1>4, <1>5, <1>6 DEF IInv

(* What IInv says of a guard that has a connection.                        *)
LEMMA Holding ==
    ASSUME SandboxAssumption, IInv, NEW g \in Guards, guard[g].at # "off", guard[g].at # "dial"
    PROVE  \E k \in Conns : /\ guard[g].conn = k /\ guard[g] \in GuardRecs /\ conn[k] \in ConnRecs
                            /\ GuardShape(guard[g], conn[k]) /\ ConnShape(conn[k], idle = k)
                            /\ conn[k].open
<1>1. guard[g] \in GuardRecs /\ GuardShape(guard[g], conn[guard[g].conn])
  BY DEF IInv, TypeOK
<1>2. guard[g].conn \in Conns
  BY <1>1 DEF GuardShape, GuardRecs, Ids
<1>3. Held(guard[g].conn)
  BY DEF Held
<1> QED
  BY <1>1, <1>2, <1>3 DEF IInv, TypeOK, HolderShape

(* The guard says the end e of the script of request c, and finishes.      *)
EndsWith(g, k, c, e, d) ==
    /\ guard[g].conn = k
    /\ (conn[k].ran = None /\ conn[k].job = c) \/ conn[k].ran = Run(c, "alive")
    /\ guard' = [guard EXCEPT ![g] = Finishing(@)] /\ conn' = [conn EXCEPT ![k] = d]
    /\ UNCHANGED <<slot, call, honest, approved, usable>> /\ upsets' \in 0 .. MaxUpsets
    /\ d \in ConnRecs /\ d.at = conn[k].at /\ d.att = conn[k].att /\ d.open = conn[k].open
    /\ d.job \in {None, conn[k].job} /\ d.ran = Run(c, e)
    /\ \A x : In(x, d.up) => In(x, conn[k].up) \/ x = e

LEMMA Ending ==
    ASSUME SandboxAssumption, IInv, NEW g \in Guards, NEW k \in Conns, NEW c \in Calls,
           NEW e \in Exits, NEW d, EndsWith(g, k, c, e, d)
    PROVE  IInv'
<1> USE DEF EndsWith
<1> DEFINE r == Finishing(guard[g])
<1>1. r \in GuardRecs /\ r.conn = k /\ r.at = "kill"
  <2>1. 0 \in 0 .. MaxFrames
    BY DEF SandboxAssumption
  <2> QED
    BY <2>1 DEF Finishing, Off, GuardRecs, Ids
<1>2. guard' = [guard EXCEPT ![g] = r]
  OBVIOUS
<1> HIDE DEF r
<1>3. /\ conn[k] \in ConnRecs /\ ConnShape(conn[k], idle = k) /\ conn[k].open
      /\ k # None /\ c # None
  BY DEF IInv, TypeOK, HolderShape, Held, SandboxAssumption
<1>4. \A f \in Exits : ~ In(f, conn[k].up)
  BY <1>3, RunType DEF ConnShape, Exits
<1>5. GuardShape(r, d)
  BY <1>1, <1>3, RunType DEF GuardShape
<1>6. ConnShape(d, idle = k)
  <2>1. conn[k].at \notin {"queued", "hello"} /\ idle # k
    BY <1>3, RunType DEF ConnShape
  <2>2. ~ In("eof", d.up)
    BY <1>3 DEF ConnShape, Exits
  <2>3. d.ran # None /\ d.ran.as = e /\ (d.att # None => d.ran.by = d.att)
    BY <1>3, RunType DEF ConnShape
  <2>4. \A f \in Exits : In(f, d.up) => f = e
    BY <1>4
  <2> QED
    BY <1>3, <2>1, <2>2, <2>3, <2>4 DEF ConnShape
<1>7. \A f \in {"ok", "error"}, b \in Calls : conn[k].ran # Run(b, f)
  BY RunType DEF Exits
<1>8. r.conn \in {k, None} /\ (d.open <=> r.conn # None)
  BY <1>1, <1>3
<1>9. MovesOn(g, k, r, d)
  BY <1>1, <1>2, <1>5, <1>6, <1>7, <1>8 DEF MovesOn
<1> QED
  BY <1>9, OnConnection

LEMMA ReapedType ==
    ASSUME SandboxAssumption, NEW c \in ConnRecs
    PROVE  /\ Reaped(c) \in ConnRecs
           /\ \/ Reaped(c) = c /\ (c.ran # None => c.ran.as # "alive")
              \/ /\ c.ran # None /\ c.ran.as = "alive" /\ Reaped(c).ran = Run(c.ran.by, "killed")
                 /\ Alike([c EXCEPT !.ran = Reaped(c).ran], Reaped(c)) /\ Reaped(c).up = c.up
<1>1. CASE c.ran # None /\ c.ran.as = "alive"
  <2>1. c.ran \in Runs
    BY <1>1 DEF ConnRecs
  <2>2. c.ran.by \in Calls
    BY <2>1 DEF Runs
  <2>3. Run(c.ran.by, "killed") \in Runs
    BY <2>2, RunType DEF Exits
  <2>4. Reaped(c) = [c EXCEPT !.ran = Run(c.ran.by, "killed")]
    BY <1>1 DEF Reaped
  <2> QED
    BY <1>1, <2>3, <2>4 DEF ConnRecs, Alike
<1>2. CASE ~ (c.ran # None /\ c.ran.as = "alive")
  BY <1>2 DEF Reaped
<1> QED
  BY <1>1, <1>2

(* A guard lets go of its connection: it hangs up, and where it dies no    *)
(* process of the script is left.                                          *)
HangsUp(g, k, r) ==
    /\ guard[g].conn = k /\ r \in GuardRecs /\ r.at \in {"off", "dial"} /\ r.conn = None
    /\ guard' = [guard EXCEPT ![g] = r]
    /\ \E d \in {HungUp(k), Reaped(HungUp(k))} : conn' = [conn EXCEPT ![k] = d]
    /\ UNCHANGED <<slot, call, honest, approved, usable>> /\ upsets' \in 0 .. MaxUpsets

LEMMA LettingGo ==
    ASSUME SandboxAssumption, IInv, NEW g \in Guards, NEW k \in Conns, NEW r, HangsUp(g, k, r)
    PROVE  IInv'
<1>1. /\ conn[k] \in ConnRecs /\ ConnShape(conn[k], idle = k) /\ conn[k].open
      /\ TypeOK /\ k # None /\ guard[g].conn = k
  BY DEF HangsUp, IInv, TypeOK, HolderShape, Held, SandboxAssumption
<1>2. PICK d : d \in {HungUp(k), Reaped(HungUp(k))} /\ conn' = [conn EXCEPT ![k] = d]
  BY DEF HangsUp
<1> DEFINE h == HungUp(k)
<1>3. h \in ConnRecs /\ Reaped(h) \in ConnRecs
  BY <1>1, HungUpType, ReapedType
<1>4. CASE conn[k].at = "gone"
  <2>1. d = Closed /\ conn[k].att = None
    <3>1. h = Closed
      BY <1>1, <1>4, HungUpType
    <3>2. Closed.ran = None
      BY DEF Closed
    <3>3. Reaped(Closed) = Closed
      BY <3>2 DEF Reaped
    <3>4. conn[k].att = None
      BY <1>1, <1>4 DEF ConnShape
    <3> QED
      BY <1>2, <3>1, <3>3, <3>4
  <2>2. /\ Closed.at = "gone" /\ Closed.att = None /\ Closed.ran = None
        /\ ~ Closed.open /\ \A f : ~ In(f, Closed.up)
    BY NoFrame DEF Closed
  <2>3. ConnShape(d, idle = k)
    BY <2>1, <2>2 DEF ConnShape, Closed
  <2>4. MovesOn(g, k, r, d)
    BY <1>1, <1>2, <1>3, <1>4, <2>1, <2>2, <2>3 DEF MovesOn, HangsUp, GuardShape, SandboxAssumption
  <2> QED
    BY <2>4, OnConnection
<1>5. CASE conn[k].at # "gone"
  <2>1. /\ h.at = conn[k].at /\ h.att = conn[k].att /\ ~ h.open /\ h.ran = conn[k].ran
        /\ h.job = conn[k].job /\ \A x : In(x, h.up) => In(x, conn[k].up) \/ x = "eof"
    BY <1>1, <1>5, HungUpType DEF Alike, ConnRecs
  <2> HIDE DEF h
  <2>2. ConnShape(h, idle = k)
    BY <1>1, <2>1 DEF ConnShape, Exits
  <2>3. /\ d \in ConnRecs /\ d.at = h.at /\ d.att = h.att /\ d.open = h.open /\ d.job = h.job
        /\ d.up = h.up
        /\ \/ d.ran = h.ran
           \/ h.ran # None /\ h.ran.as = "alive" /\ d.ran = Run(h.ran.by, "killed")
    BY <1>2, <1>3, ReapedType DEF Alike, ConnRecs, h
  <2>4. ConnShape(d, idle = k)
    <3>1. CASE d.ran = h.ran
      BY <2>2, <2>3, <3>1 DEF ConnShape
    <3>2. CASE h.ran # None /\ h.ran.as = "alive" /\ d.ran = Run(h.ran.by, "killed")
      <4>1. h.ran.by \in Calls
        BY <1>3, <3>2 DEF ConnRecs, Runs, h
      <4>2. d.ran # None /\ d.ran.by = h.ran.by
        BY <3>2, <4>1, RunType DEF Exits
      <4> QED
        BY <2>2, <2>3, <3>2, <4>2 DEF ConnShape, Exits
    <3> QED
      BY <2>3, <3>1, <3>2
  <2>5. \A e \in {"ok", "error"}, c \in Calls : conn[k].ran = Run(c, e) => d.ran = Run(c, e)
    BY <2>1, <2>3, RunType DEF Exits
  <2>6. MovesOn(g, k, r, d)
    BY <1>1, <1>2, <2>1, <2>3, <2>4, <2>5 DEF MovesOn, HangsUp, GuardShape
  <2> QED
    BY <2>6, OnConnection
<1> QED
  BY <1>4, <1>5

LEMMA TakeJobKeeps ==
    ASSUME SandboxAssumption, IInv, NEW g \in Guards, TakeJob(g)
    PROVE  IInv'
<1>1. PICK k \in Conns : /\ guard[g].conn = k /\ guard[g] \in GuardRecs /\ conn[k] \in ConnRecs
                         /\ GuardShape(guard[g], conn[k]) /\ ConnShape(conn[k], idle = k)
                         /\ conn[k].open
  BY Holding DEF TakeJob
<1>2. PICK c \in Calls : conn[k].job = c
  BY <1>1 DEF TakeJob, ConnRecs
<1>3. /\ k # None /\ c # None /\ conn[k].ran = None /\ \A e \in Exits : ~ In(e, conn[k].up)
      /\ conn[k].at \notin {"queued", "hello"} /\ idle # k /\ guard[g].at = "wait"
      /\ \A b \in Calls, e \in Exits : Run(b, e) # None
  BY <1>1, <1>2, RunType DEF TakeJob, GuardShape, ConnShape, SandboxAssumption
<1>4. UNCHANGED <<slot, call, honest, approved, usable>> /\ upsets' \in 0 .. MaxUpsets
  BY DEF TakeJob, IInv, TypeOK
<1>5. CASE /\ guard' = [guard EXCEPT ![g] = [@ EXCEPT !.job = c, !.at = "script"]]
           /\ conn' = [conn EXCEPT ![k] = [@ EXCEPT !.job = None, !.ran = Run(c, "alive")]]
  <2> DEFINE r == [guard[g] EXCEPT !.job = c, !.at = "script"]
             d == [conn[k] EXCEPT !.job = None, !.ran = Run(c, "alive")]
  <2>1. /\ r \in GuardRecs /\ r.conn = k /\ r.at = "script" /\ r.job = c
    BY <1>1 DEF GuardRecs
  <2>2. /\ d \in ConnRecs /\ d.at = conn[k].at /\ d.att = conn[k].att /\ d.open = conn[k].open
        /\ d.up = conn[k].up /\ d.job = None /\ d.ran = Run(c, "alive")
    BY <1>1, RunType DEF ConnRecs
  <2>3. guard' = [guard EXCEPT ![g] = r] /\ conn' = [conn EXCEPT ![k] = d]
    BY <1>5
  <2> HIDE DEF r, d
  <2>4. GuardShape(r, d)
    BY <1>3, <2>1, <2>2, RunType DEF GuardShape
  <2>5. ConnShape(d, idle = k)
    BY <1>1, <1>2, <1>3, <2>2, RunType DEF ConnShape
  <2>6. \A e \in {"ok", "error"}, b \in Calls : conn[k].ran # Run(b, e)
    BY <1>3 DEF Exits
  <2>7. r.conn \in {k, None} /\ (d.open <=> r.conn # None)
    BY <1>1, <1>3, <2>1, <2>2
  <2>8. MovesOn(g, k, r, d)
    BY <1>1, <1>4, <2>1, <2>2, <2>3, <2>4, <2>5, <2>6, <2>7 DEF MovesOn
  <2> QED
    BY <2>8, OnConnection
<1>6. CASE /\ guard' = [guard EXCEPT ![g] = Finishing(@)]
           /\ conn' = [conn EXCEPT ![k] = [Sent(k, "error") EXCEPT !.job = None, !.ran = Run(c, "error")]]
  <2> DEFINE b == Sent(k, "error")
             d == [b EXCEPT !.job = None, !.ran = Run(c, "error")]
  <2>1. b \in ConnRecs /\ Alike(b, conn[k]) /\ \A x : In(x, b.up) => In(x, conn[k].up) \/ x = "error"
    BY SentType DEF Frames, Exits, IInv
  <2>2. Run(c, "error") \in Runs /\ "error" \in Exits
    BY RunType DEF Exits
  <2> HIDE DEF b
  <2>3. /\ d \in ConnRecs /\ d.at = conn[k].at /\ d.att = conn[k].att /\ d.open = conn[k].open
        /\ d.up = b.up /\ d.job = None /\ d.ran = Run(c, "error")
    BY <2>1, <2>2 DEF ConnRecs, Alike
  <2>4. conn' = [conn EXCEPT ![k] = d]
    BY <1>6 DEF b
  <2> HIDE DEF d
  <2>5. EndsWith(g, k, c, "error", d)
    BY <1>1, <1>2, <1>3, <1>4, <1>6, <2>1, <2>2, <2>3, <2>4 DEF EndsWith
  <2> QED
    BY <2>2, <2>5, Ending
<1> QED
  BY <1>1, <1>2, <1>5, <1>6 DEF TakeJob

LEMMA ScriptEndsKeeps ==
    ASSUME SandboxAssumption, IInv, NEW g \in Guards, ScriptEnds(g)
    PROVE  IInv'
<1>1. PICK k \in Conns : /\ guard[g].conn = k /\ guard[g] \in GuardRecs /\ conn[k] \in ConnRecs
                         /\ GuardShape(guard[g], conn[k]) /\ ConnShape(conn[k], idle = k)
                         /\ conn[k].open
  BY Holding DEF ScriptEnds
<1>2. PICK c \in Calls : guard[g].job = c /\ conn[k].ran = Run(c, "alive")
  BY <1>1 DEF ScriptEnds, GuardShape
<1>3. PICK e \in Exits : conn' = [conn EXCEPT ![k] = [Sent(k, e) EXCEPT !.ran = Run(c, e)]]
  BY <1>1, <1>2 DEF ScriptEnds
<1>4. /\ UNCHANGED <<slot, call, honest, approved, usable>> /\ upsets' \in 0 .. MaxUpsets
      /\ guard' = [guard EXCEPT ![g] = Finishing(@)]
  BY DEF ScriptEnds, IInv, TypeOK
<1> DEFINE b == Sent(k, e)
           d == [b EXCEPT !.ran = Run(c, e)]
<1>5. b \in ConnRecs /\ Alike(b, conn[k]) /\ \A x : In(x, b.up) => In(x, conn[k].up) \/ x = e
  BY SentType DEF Frames, IInv
<1>6. Run(c, e) \in Runs
  BY RunType
<1> HIDE DEF b
<1>7. /\ d \in ConnRecs /\ d.at = conn[k].at /\ d.att = conn[k].att /\ d.open = conn[k].open
      /\ d.up = b.up /\ d.job = conn[k].job /\ d.ran = Run(c, e)
  BY <1>5, <1>6 DEF ConnRecs, Alike
<1>8. conn' = [conn EXCEPT ![k] = d]
  BY <1>3 DEF b
<1> HIDE DEF d
<1>9. EndsWith(g, k, c, e, d)
  BY <1>1, <1>2, <1>4, <1>5, <1>7, <1>8 DEF EndsWith
<1> QED
  BY <1>9, Ending

LEMMA RedialKeeps ==
    ASSUME SandboxAssumption, IInv, NEW g \in Guards, Redial(g)
    PROVE  IInv'
<1>1. PICK k \in Conns : guard[g].conn = k /\ guard[g] \in GuardRecs
  BY Holding DEF Redial
<1> DEFINE r == [guard[g] EXCEPT !.at = "dial", !.conn = None]
<1>2. r \in GuardRecs /\ r.at = "dial" /\ r.conn = None
  BY <1>1 DEF GuardRecs, Ids
<1>3. guard' = [guard EXCEPT ![g] = r]
  BY DEF Redial
<1> HIDE DEF r
<1>4. HangsUp(g, k, r)
  BY <1>1, <1>2, <1>3 DEF Redial, HangsUp, IInv, TypeOK
<1> QED
  BY <1>4, LettingGo

LEMMA OffType ==
    ASSUME SandboxAssumption
    PROVE  Off \in GuardRecs /\ Off.at = "off" /\ Off.conn = None
BY DEF SandboxAssumption, Off, GuardRecs, Ids

LEMMA CloseKeeps ==
    ASSUME SandboxAssumption, IInv, NEW g \in Guards, Close(g)
    PROVE  IInv'
<1>1. PICK k \in Conns : guard[g].conn = k
  BY Holding DEF Close
<1>2. HangsUp(g, k, Off)
  BY <1>1, OffType DEF Close, HangsUp, IInv, TypeOK
<1> QED
  BY <1>2, LettingGo

LEMMA UpsetType ==
    ASSUME SandboxAssumption, TypeOK, Upset
    PROVE  upsets' \in 0 .. MaxUpsets
BY DEF SandboxAssumption, TypeOK, Upset

(* A guard that dials dies without a connection.                           *)
LEMMA DieKeeps ==
    ASSUME SandboxAssumption, IInv, NEW g \in Guards, Die(g)
    PROVE  IInv'
<1>1. upsets' \in 0 .. MaxUpsets /\ UNCHANGED <<slot, call, honest, approved, usable>>
      /\ guard' = [guard EXCEPT ![g] = Off]
  BY UpsetType DEF Die, IInv
<1>2. CASE guard[g].conn # None
  <2>1. PICK k \in Conns : guard[g].conn = k
    BY <1>2 DEF IInv, TypeOK, GuardRecs, Ids
  <2>2. conn' = [conn EXCEPT ![k] = Reaped(HungUp(k))]
    BY <1>2, <2>1 DEF Die
  <2>3. HangsUp(g, k, Off)
    BY <1>1, <2>1, <2>2, OffType DEF HangsUp
  <2> QED
    BY <2>3, LettingGo
<1>3. CASE guard[g].conn = None
  <2>1. conn' = conn
    BY <1>3 DEF Die
  <2>2. guard' \in [Guards -> GuardRecs] /\ \A h \in Guards : guard'[h] = IF h = g THEN Off ELSE guard[h]
    BY <1>1, OffType DEF IInv, TypeOK
  <2>3. \A h \in Guards : guard'[h].conn = guard[h].conn
    BY <1>3, <2>2, OffType
  <2>4. \A h \in Guards : GuardShape(guard'[h], conn'[guard'[h].conn])
    BY <2>1, <2>2, OffType DEF IInv, GuardShape
  <2>5. HolderShape'
    BY <2>1, <2>3 DEF IInv, HolderShape, Held
  <2>6. TypeOK'
    BY <1>1, <2>1, <2>2 DEF IInv, TypeOK, slot
  <2> QED
    BY <1>1, <2>1, <2>4, <2>5, <2>6 DEF IInv, BacklogShape, InboxShape, slot
<1> QED
  BY <1>2, <1>3

(* The connection stays, but for what is read of the guard: nothing here.  *)
LEMMA AbortedKeeps ==
    ASSUME SandboxAssumption, IInv, NEW g \in Guards, Aborted(g)
    PROVE  IInv'
<1>1. PICK k \in Conns : /\ guard[g].conn = k /\ guard[g] \in GuardRecs /\ conn[k] \in ConnRecs
                         /\ GuardShape(guard[g], conn[k]) /\ ConnShape(conn[k], idle = k)
                         /\ conn[k].open
  BY Holding DEF Aborted
<1> DEFINE r == Finishing(guard[g])
<1>2. r \in GuardRecs /\ r.conn = k /\ r.at = "kill" /\ guard' = [guard EXCEPT ![g] = r] /\ k # None
  BY <1>1, OffType DEF Aborted, Finishing, GuardRecs, Off, SandboxAssumption
<1>3. conn' = [conn EXCEPT ![k] = conn[k]]
  BY DEF Aborted, IInv, TypeOK
<1> HIDE DEF r
<1>4. GuardShape(r, conn[k])
  BY <1>1, <1>2 DEF Aborted, GuardShape
<1>5. MovesOn(g, k, r, conn[k])
  BY <1>1, <1>2, <1>3, <1>4 DEF MovesOn, Aborted, IInv, TypeOK
<1> QED
  BY <1>5, OnConnection

LEMMA KillAllKeeps ==
    ASSUME SandboxAssumption, IInv, NEW g \in Guards, KillAll(g)
    PROVE  IInv'
<1>1. PICK k \in Conns : /\ guard[g].conn = k /\ guard[g] \in GuardRecs /\ conn[k] \in ConnRecs
                         /\ GuardShape(guard[g], conn[k]) /\ ConnShape(conn[k], idle = k)
                         /\ conn[k].open
  BY Holding DEF KillAll
<1> DEFINE r == [guard[g] EXCEPT !.at = "close"]
           d == Reaped(conn[k])
<1>2. r \in GuardRecs /\ r.conn = k /\ r.at = "close" /\ guard' = [guard EXCEPT ![g] = r] /\ k # None
  BY <1>1 DEF KillAll, GuardRecs, SandboxAssumption
<1>3. /\ d \in ConnRecs /\ conn' = [conn EXCEPT ![k] = d]
      /\ d.at = conn[k].at /\ d.att = conn[k].att /\ d.open = conn[k].open /\ d.job = conn[k].job
      /\ d.up = conn[k].up
      /\ \/ d.ran = conn[k].ran
         \/ /\ conn[k].ran # None /\ conn[k].ran.as = "alive"
            /\ d.ran = Run(conn[k].ran.by, "killed")
  BY <1>1, ReapedType DEF KillAll, Alike, ConnRecs
<1> HIDE DEF r, d
<1>4. GuardShape(r, d)
  BY <1>2, <1>3 DEF GuardShape, IInv, SandboxAssumption
<1>5. ConnShape(d, idle = k)
  <2>1. CASE d.ran = conn[k].ran
    BY <1>1, <1>3, <2>1 DEF ConnShape
  <2>2. CASE /\ conn[k].ran # None /\ conn[k].ran.as = "alive"
             /\ d.ran = Run(conn[k].ran.by, "killed")
    <3>1. conn[k].ran.by \in Calls
      BY <1>1, <2>2 DEF ConnRecs, Runs
    <3>2. d.ran # None /\ d.ran.by = conn[k].ran.by
      BY <2>2, <3>1, RunType DEF Exits
    <3> QED
      BY <1>1, <1>3, <2>2, <3>2 DEF ConnShape, Exits
  <2> QED
    BY <1>3, <2>1, <2>2
<1>6. \A e \in {"ok", "error"}, c \in Calls : conn[k].ran = Run(c, e) => d.ran = Run(c, e)
  BY <1>3, RunType DEF Exits
<1>7. MovesOn(g, k, r, d)
  <2>1. UNCHANGED <<slot, call, honest, approved, usable>> /\ upsets' \in 0 .. MaxUpsets
    BY DEF KillAll, IInv, TypeOK
  <2> QED
    BY <1>1, <1>2, <1>3, <1>4, <1>5, <1>6, <2>1 DEF MovesOn
<1> QED
  BY <1>7, OnConnection

LEMMA SpeakKeeps ==
    ASSUME SandboxAssumption, IInv, NEW g \in Guards, Speak(g)
    PROVE  IInv'
<1>1. PICK k \in Conns : /\ guard[g].conn = k /\ guard[g] \in GuardRecs /\ conn[k] \in ConnRecs
                         /\ GuardShape(guard[g], conn[k]) /\ ConnShape(conn[k], idle = k)
                         /\ conn[k].open
  BY Holding DEF Speak
<1>2. PICK f \in Said : conn' = [conn EXCEPT ![k] = Sent(k, f)]
  BY <1>1 DEF Speak
<1> DEFINE r == [guard[g] EXCEPT !.said = @ + 1]
           d == Sent(k, f)
<1>3. r \in GuardRecs /\ r.conn = k /\ r.at = "script" /\ r.job = guard[g].job
      /\ guard' = [guard EXCEPT ![g] = r] /\ k # None
  BY <1>1 DEF Speak, GuardRecs, SandboxAssumption
<1>4. /\ d \in ConnRecs /\ Alike(d, conn[k])
      /\ \A x : In(x, d.up) => In(x, conn[k].up) \/ x = f
  BY SentType DEF Frames, IInv
<1> HIDE DEF r, d
<1>5. GuardShape(r, d)
  BY <1>1, <1>3, <1>4 DEF GuardShape, Alike, Speak
<1>6. ConnShape(d, idle = k)
  BY <1>1, <1>4 DEF ConnShape, Alike, Said, Exits
<1>7. MovesOn(g, k, r, d)
  BY <1>1, <1>2, <1>3, <1>4, <1>5, <1>6 DEF MovesOn, Alike, Speak, IInv, TypeOK, d
<1> QED
  BY <1>7, OnConnection

(* A new connection is held by nobody else and waits in the backlog.       *)
LEMMA DialKeeps ==
    ASSUME SandboxAssumption, IInv, NEW g \in Guards, Dial(g)
    PROVE  IInv'
<1>1. PICK k \in Conns, fit \in BOOLEAN, hello \in {<<>>, <<"hello">>} :
          /\ Reusable(k)
          /\ conn' = [conn EXCEPT ![k] = [Fresh(fit) EXCEPT !.up = hello]]
          /\ guard' = [guard EXCEPT ![g] = [Off EXCEPT !.at = "wait", !.conn = k, !.fit = fit]]
          /\ upsets' = upsets \/ Upset
          /\ backlog' = Append(backlog, k)
  BY DEF Dial
<1> DEFINE r == [Off EXCEPT !.at = "wait", !.conn = k, !.fit = fit]
           d == [Fresh(fit) EXCEPT !.up = hello]
<1>2. UNCHANGED <<current, idle, call, honest, approved, usable>> /\ upsets' \in 0 .. MaxUpsets
  BY <1>1, UpsetType DEF Dial, IInv, TypeOK
<1>3. /\ guard[g].conn = None /\ k # None /\ conn[k].at = "gone" /\ idle # k /\ current # k
      /\ \A h \in Guards : guard[h].conn # k
      /\ \A c \in Calls : call[c].conn # k
  BY <1>1 DEF Dial, Reusable, IInv, GuardShape, TypeOK, SandboxAssumption
<1>4. r \in GuardRecs /\ r.conn = k /\ r.at = "wait"
  BY OffType DEF GuardRecs, Ids
<1>5. hello \in Seq(Frames) /\ \A f : In(f, hello) => f = "hello"
  BY NoFrame, Hello
<1>6. /\ d \in ConnRecs /\ d.at = "queued" /\ d.up = hello /\ d.job = None /\ d.open
      /\ d.att = None /\ d.ran = None
  BY <1>5 DEF Fresh, Closed, ConnRecs
<1>7. guard' = [guard EXCEPT ![g] = r] /\ conn' = [conn EXCEPT ![k] = d]
  BY <1>1
<1> HIDE DEF r, d
<1>8. /\ guard' \in [Guards -> GuardRecs] /\ \A h \in Guards : guard'[h] = IF h = g THEN r ELSE guard[h]
      /\ conn' \in [Conns -> ConnRecs] /\ \A j \in Conns : conn'[j] = IF j = k THEN d ELSE conn[j]
  BY <1>4, <1>6, <1>7 DEF IInv, TypeOK
<1>9. TypeOK'
  <2>1. backlog' \in Seq(Conns)
    BY <1>1 DEF IInv, TypeOK
  <2>2. \A j \in Conns : conn'[j].at \in {"hello", "serving", "drain"} <=> current' = j
    BY <1>2, <1>3, <1>6, <1>8 DEF IInv, TypeOK
  <2>3. \A j \in Conns, c \in Calls : conn'[j].att = c <=> call'[c].conn = j
    BY <1>2, <1>3, <1>6, <1>8 DEF IInv, TypeOK, SandboxAssumption
  <2> QED
    BY <1>2, <1>8, <2>1, <2>2, <2>3 DEF IInv, TypeOK
<1>10. ASSUME NEW h \in Guards PROVE GuardShape(guard'[h], conn'[guard'[h].conn])
  <2>1. CASE h = g
    BY <1>3, <1>4, <1>6, <1>8, <2>1 DEF GuardShape
  <2>2. CASE h # g /\ guard[h].conn = None
    BY <1>8, <2>2 DEF IInv, GuardShape
  <2>3. CASE h # g /\ guard[h].conn # None
    <3>1. guard[h].conn \in Conns \ {k}
      BY <1>3, <2>3 DEF IInv, TypeOK, GuardRecs, Ids
    <3> QED
      BY <1>8, <2>3, <3>1 DEF IInv
  <2> QED
    BY <2>1, <2>2, <2>3
<1>11. HolderShape'
  <2>1. ASSUME NEW j \in Conns PROVE conn'[j].open <=> Held(j)'
    <3>1. CASE j = k
      BY <1>4, <1>6, <1>8, <3>1 DEF Held
    <3>2. CASE j # k
      <4>1. Held(j)' <=> Held(j)
        BY <1>3, <1>4, <1>8, <3>2 DEF Held, SandboxAssumption
      <4> QED
        BY <1>8, <3>2, <4>1 DEF IInv, HolderShape
    <3> QED
      BY <3>1, <3>2
  <2>2. ASSUME NEW h \in Guards, NEW i \in Guards, guard'[h].conn = guard'[i].conn, guard'[h].conn # None
        PROVE  h = i
    BY <1>3, <1>4, <1>8, <2>2 DEF IInv, HolderShape
  <2> QED
    BY <2>1, <2>2 DEF HolderShape
<1>12. \A j \in Conns : ConnShape(conn'[j], idle' = j)
  <2>1. ConnShape(d, idle = k)
    BY <1>3, <1>5, <1>6 DEF ConnShape, Exits
  <2> QED
    BY <1>2, <1>8, <2>1 DEF IInv
<1>13. BacklogShape'
  <2>1. \A i \in 1 .. Len(backlog) : backlog[i] \in Conns /\ backlog[i] # k
    BY <1>3 DEF IInv, TypeOK, BacklogShape
  <2>2. /\ Len(backlog') = Len(backlog) + 1 /\ Len(backlog) \in Nat
        /\ \A i \in 1 .. Len(backlog) : backlog'[i] = backlog[i]
        /\ backlog'[Len(backlog) + 1] = k
    BY <1>1 DEF IInv, TypeOK
  <2>3. \A i \in 1 .. Len(backlog') : i \in 1 .. Len(backlog) \/ i = Len(backlog) + 1
    BY <2>2
  <2> QED
    BY <1>6, <1>8, <2>1, <2>2, <2>3 DEF IInv, BacklogShape
<1>14. ASSUME NEW c \in Calls PROVE PlaceShape(call'[c]) /\ InboxShape(c)'
  <2>1. call[c].conn # None => call[c].conn \in Conns \ {k}
    BY <1>3 DEF IInv, TypeOK, CallRecs, Ids
  <2> QED
    BY <1>2, <1>8, <2>1 DEF IInv, InboxShape
<1> QED
  BY <1>2, <1>9, <1>10, <1>11, <1>12, <1>13, <1>14 DEF IInv

-----------------------------------------------------------------------------
(* Steps of the mediator on its connections.                               *)

(* The mediator opens nothing, and forgets of a script only what nobody    *)
(* holds any more.                                                         *)
OwnSide == /\ UNCHANGED guard
           /\ \A j \in Conns : /\ conn'[j].open = conn[j].open
                               /\ conn[j].open => conn'[j].ran = conn[j].ran

LEMMA GuardsStay ==
    ASSUME SandboxAssumption, IInv, OwnSide
    PROVE  (\A g \in Guards : GuardShape(guard[g], conn[guard[g].conn]))' /\ HolderShape'
<1>1. ASSUME NEW g \in Guards PROVE GuardShape(guard[g], conn'[guard[g].conn])
  <2>1. CASE guard[g].conn = None
    BY <2>1 DEF IInv, GuardShape
  <2>2. CASE guard[g].conn # None
    <3>1. guard[g].conn \in Conns /\ Held(guard[g].conn)
      BY <2>2 DEF IInv, TypeOK, GuardRecs, Ids, Held
    <3>2. conn'[guard[g].conn].ran = conn[guard[g].conn].ran
      BY <3>1 DEF OwnSide, IInv, HolderShape
    <3> QED
      BY <3>2 DEF IInv, GuardShape
  <2> QED
    BY <2>1, <2>2
<1>2. HolderShape'
  BY DEF OwnSide, IInv, HolderShape, Held
<1> QED
  BY <1>1, <1>2 DEF OwnSide

(* The rest of the backlog.                                                *)
LEMMA BacklogRest ==
    ASSUME IInv, backlog # <<>>
    PROVE  /\ Head(backlog) \in Conns /\ conn[Head(backlog)].at = "queued"
           /\ Tail(backlog) \in Seq(Conns) /\ Len(Tail(backlog)) \in Nat
           /\ \A i \in 1 .. Len(Tail(backlog)) : /\ Tail(backlog)[i] # Head(backlog)
                                               /\ Tail(backlog)[i] \in Conns
                                               /\ conn[Tail(backlog)[i]].at = "queued"
           /\ \A i, j \in 1 .. Len(Tail(backlog)) : Tail(backlog)[i] = Tail(backlog)[j] => i = j
<1>1. /\ Len(backlog) \in Nat /\ 1 \in 1 .. Len(backlog) /\ Head(backlog) = backlog[1]
      /\ \A i \in 1 .. Len(backlog) : backlog[i] \in Conns
  BY DEF IInv, TypeOK
<1>2. Tail(backlog) \in Seq(Conns) /\ Len(Tail(backlog)) = Len(backlog) - 1
  BY DEF IInv, TypeOK
<1>3. \A i \in 1 .. Len(Tail(backlog)) : Tail(backlog)[i] = backlog[i + 1] /\ i + 1 \in 1 .. Len(backlog)
  BY <1>1, <1>2 DEF IInv, TypeOK
<1>4. \A i \in 1 .. Len(Tail(backlog)) : i + 1 # 1
  BY <1>1, <1>2
<1>5. \A i, j \in 1 .. Len(Tail(backlog)) : i + 1 = j + 1 => i = j
  BY <1>1, <1>2
<1> QED
  BY <1>1, <1>2, <1>3, <1>4, <1>5 DEF IInv, BacklogShape

LEMMA AcceptKeeps ==
    ASSUME SandboxAssumption, IInv, Accept
    PROVE  IInv'
<1> DEFINE k == Head(backlog)
<1>1. PICK q \in Conns : q = k /\ conn[q].at = "queued"
  BY BacklogRest DEF Accept
<1>2. /\ backlog' = Tail(backlog) /\ backlog # <<>>
      /\ UNCHANGED <<guard, idle, call, honest, approved, usable, upsets>>
  BY DEF Accept
<1>3. conn[q] \in ConnRecs /\ ConnShape(conn[q], idle = q) /\ current # q /\ q # None
  BY <1>1 DEF IInv, TypeOK, SandboxAssumption
<1> DEFINE d == [conn[q] EXCEPT !.at = "hello"]
           e == Refused(conn[q])
           l == [conn[current] EXCEPT !.lost = @ \/ conn[current].att # None]
<1>4. /\ d \in ConnRecs /\ d.at = "hello" /\ d.att = conn[q].att /\ d.open = conn[q].open
      /\ d.ran = conn[q].ran /\ d.job = conn[q].job /\ d.up = conn[q].up
  BY <1>3 DEF ConnRecs
<1>5. /\ e \in ConnRecs /\ e.at = "gone" /\ e.att = None /\ e.open = conn[q].open
      /\ e.ran = conn[q].ran /\ e.job = conn[q].job /\ e.up = <<>>
  BY <1>3, NoFrame DEF ConnRecs, Refused
<1>6. current # None => /\ current \in Conns /\ l \in ConnRecs /\ Alike(l, [conn[current] EXCEPT !.lost = l.lost])
                        /\ l.up = conn[current].up
  <2>1. current # None => current \in Conns /\ conn[current] \in ConnRecs
    BY DEF IInv, TypeOK, Ids
  <2> QED
    BY <2>1 DEF ConnRecs, Alike
<1>7. /\ conn' \in [Conns -> ConnRecs]
      /\ current = None => /\ conn'[q] = d /\ current' = q
                           /\ \A j \in Conns \ {q} : conn'[j] = conn[j]
      /\ current # None => /\ conn'[q] = e /\ current' = current
                           /\ conn'[current] = l
                           /\ \A j \in Conns \ {q, current} : conn'[j] = conn[j]
  <2>1. CASE current = None
    <3>1. conn' = [conn EXCEPT ![q] = d] /\ current' = q
      BY <1>1, <2>1 DEF Accept
    <3> HIDE DEF d
    <3> QED
      BY <1>4, <2>1, <3>1 DEF IInv, TypeOK
  <2>2. CASE current # None
    BY <1>1, <1>3, <1>5, <1>6, <2>2 DEF Accept, IInv, TypeOK
  <2> QED
    BY <2>1, <2>2
<1> HIDE DEF d, e, l
<1>8. conn[q].att = None
  BY <1>1, <1>3 DEF ConnShape
<1>9. ASSUME NEW j \in Conns
      PROVE  /\ conn'[j].open = conn[j].open /\ conn'[j].ran = conn[j].ran
             /\ conn'[j].att = conn[j].att /\ conn'[j].job = conn[j].job
             /\ \A x : In(x, conn'[j].up) => In(x, conn[j].up)
             /\ conn'[j].at = IF j # q THEN conn[j].at ELSE IF current = None THEN "hello" ELSE "gone"
  <2>1. CASE j = q
    BY <1>4, <1>5, <1>7, <1>8, <2>1, NoFrame
  <2>2. CASE j # q /\ current # j
    BY <1>7, <2>2
  <2>3. CASE j # q /\ current = j
    <3>1. current # None /\ conn'[j] = l
      BY <1>7, <2>3 DEF SandboxAssumption
    <3> QED
      BY <1>6, <2>3, <3>1 DEF Alike, ConnRecs
  <2> QED
    BY <2>1, <2>2, <2>3
<1>10. TypeOK'
  <2>1. backlog' \in Seq(Conns) /\ current' \in Ids
    BY <1>2, <1>7, BacklogRest DEF IInv, TypeOK, Ids
  <2>2. \A j \in Conns : conn'[j].at \in {"hello", "serving", "drain"} <=> current' = j
    <3>1. \A j \in Conns : conn[j].at \in {"hello", "serving", "drain"} <=> current = j
      BY DEF IInv, TypeOK
    <3> QED
      BY <1>3, <1>7, <1>9, <3>1 DEF SandboxAssumption
  <2> QED
    BY <1>2, <1>7, <1>9, <2>1, <2>2 DEF IInv, TypeOK
<1>11. (\A g \in Guards : GuardShape(guard[g], conn[guard[g].conn]))' /\ HolderShape'
  BY <1>2, <1>9, GuardsStay DEF OwnSide
<1>12. ASSUME NEW j \in Conns PROVE ConnShape(conn'[j], idle = j)
  <2>1. ConnShape(conn[j], idle = j)
    BY DEF IInv
  <2>2. j = q => idle # j
    BY <1>1, <1>3 DEF ConnShape
  <2>3. conn'[j].att # None => conn'[j].at = conn[j].at
    BY <1>8, <1>9
  <2>4. conn'[j].at \in {"queued", "hello"} => conn[j].at \in {"queued", "hello"}
    BY <1>1, <1>9
  <2> QED
    BY <1>9, <2>1, <2>2, <2>3, <2>4 DEF ConnShape
<1>13. BacklogShape'
  BY <1>1, <1>2, <1>9, BacklogRest DEF BacklogShape
<1>14. \A c \in Calls : PlaceShape(call'[c]) /\ InboxShape(c)'
  <2>1. \A c \in Calls : call[c].conn # None => call[c].conn \in Conns
    BY DEF IInv, TypeOK, CallRecs, Ids
  <2> QED
    BY <1>2, <1>9, <2>1 DEF IInv, InboxShape
<1> QED
  BY <1>2, <1>10, <1>11, <1>12, <1>13, <1>14 DEF IInv

(* serve leaves d of the connection k it serves.                           *)
Served(k, d) ==
    /\ conn[k].at \in {"hello", "serving", "drain"} /\ d \in ConnRecs
    /\ conn' = [conn EXCEPT ![k] = d] /\ UNCHANGED <<guard, backlog, honest, approved, upsets>>
    /\ usable' \in BOOLEAN /\ idle' \in {idle, k} /\ (idle' # idle => idle = None)
    /\ \/ d.at \in {"serving", "drain"} /\ current' = current
       \/ d.at = "gone" /\ current' = None
    /\ d.att = conn[k].att /\ d.open = conn[k].open
    /\ d.ran = conn[k].ran \/ (~ d.open /\ d.att = None)
    /\ ConnShape(d, idle' = k)

(* The request gets no end but from the script.                            *)
Delivered(k) ==
    \/ UNCHANGED call
    \/ \E c \in Calls, f \in Frames :
          /\ conn[k].att = c /\ In(f, conn[k].up)
          /\ call' = [call EXCEPT ![c].inbox = Append(@, f)]

LEMMA ServedKeeps ==
    ASSUME SandboxAssumption, IInv, NEW k \in Conns, NEW d, Served(k, d), Delivered(k)
    PROVE  IInv'
<1>1. /\ conn[k] \in ConnRecs /\ ConnShape(conn[k], idle = k) /\ current = k /\ k # None
  BY DEF Served, IInv, TypeOK, SandboxAssumption
<1>2. conn' \in [Conns -> ConnRecs] /\ \A j \in Conns : conn'[j] = IF j = k THEN d ELSE conn[j]
  BY DEF Served, IInv, TypeOK
<1> DEFINE Grown ==
      /\ call' \in [Calls -> CallRecs]
      /\ \A c \in Calls : /\ call'[c].conn = call[c].conn /\ call'[c].pc = call[c].pc
                          /\ call'[c].stale = call[c].stale
                          /\ \/ call'[c].inbox = call[c].inbox
                             \/ /\ conn[k].att = c
                                /\ \A x : In(x, call'[c].inbox) => In(x, call[c].inbox) \/ In(x, conn[k].up)
<1>3. Grown
  <2>1. CASE UNCHANGED call
    BY <2>1 DEF IInv, TypeOK
  <2>2. ASSUME NEW b \in Calls, NEW f \in Frames, conn[k].att = b, In(f, conn[k].up),
               call' = [call EXCEPT ![b].inbox = Append(@, f)]
        PROVE  Grown
    <3> DEFINE r == [call[b] EXCEPT !.inbox = Append(@, f)]
    <3>1. call[b] \in CallRecs /\ call[b].inbox \in Seq(Frames)
      BY DEF IInv, TypeOK, CallRecs
    <3>2. /\ Append(call[b].inbox, f) \in Seq(Frames)
          /\ \A x : In(x, Append(call[b].inbox, f)) => In(x, call[b].inbox) \/ x = f
      BY <3>1, AppendedFrame
    <3>3. /\ r \in CallRecs /\ r.inbox = Append(call[b].inbox, f) /\ r.conn = call[b].conn
          /\ r.pc = call[b].pc /\ r.stale = call[b].stale
      BY <3>1, <3>2 DEF CallRecs
    <3>4. call' = [call EXCEPT ![b] = r]
      BY <2>2
    <3> HIDE DEF r
    <3>5. call' \in [Calls -> CallRecs] /\ \A c \in Calls : call'[c] = IF c = b THEN r ELSE call[c]
      BY <3>3, <3>4 DEF IInv, TypeOK
    <3> QED
      BY <2>2, <3>2, <3>3, <3>5
  <2> QED
    BY <2>1, <2>2 DEF Delivered
<1>4. TypeOK'
  <2>1. \A j \in Conns : conn'[j].at \in {"hello", "serving", "drain"} <=> current' = j
    <3>1. \A j \in Conns : conn[j].at \in {"hello", "serving", "drain"} <=> current = j
      BY DEF IInv, TypeOK
    <3> QED
      BY <1>1, <1>2, <3>1 DEF Served, SandboxAssumption
  <2>2. \A j \in Conns, c \in Calls : conn'[j].att = c <=> call'[c].conn = j
    <3>1. \A j \in Conns, c \in Calls : conn[j].att = c <=> call[c].conn = j
      BY DEF IInv, TypeOK
    <3>2. \A j \in Conns : conn'[j].att = conn[j].att
      BY <1>2 DEF Served
    <3> QED
      BY <1>3, <3>1, <3>2
  <2>3. current' \in Ids /\ idle' \in Ids /\ backlog' \in Seq(Conns)
    BY DEF Served, IInv, TypeOK, Ids
  <2> QED
    BY <1>2, <1>3, <2>1, <2>2, <2>3 DEF Served, IInv, TypeOK
<1>5. (\A g \in Guards : GuardShape(guard[g], conn[guard[g].conn]))' /\ HolderShape'
  <2>1. OwnSide
    BY <1>2 DEF Served, OwnSide
  <2> QED
    BY <2>1, GuardsStay
<1>6. ASSUME NEW j \in Conns PROVE ConnShape(conn'[j], idle' = j)
  <2>1. CASE j = k
    BY <1>2, <2>1 DEF Served
  <2>2. CASE j # k
    <3>1. conn'[j] = conn[j] /\ (idle' = j <=> idle = j)
      BY <1>1, <1>2, <2>2 DEF Served, SandboxAssumption
    <3> QED
      BY <3>1 DEF IInv
  <2> QED
    BY <2>1, <2>2
<1>7. BacklogShape'
  <2>1. \A i \in 1 .. Len(backlog) : backlog[i] \in Conns /\ backlog[i] # k
    BY DEF Served, IInv, TypeOK, BacklogShape
  <2> QED
    BY <1>2, <2>1 DEF Served, IInv, BacklogShape
<1>8. ASSUME NEW c \in Calls PROVE PlaceShape(call'[c]) /\ InboxShape(c)'
  <2>1. PlaceShape(call'[c])
    <3>1. call'[c].conn = None => call'[c].inbox = call[c].inbox
      BY <1>1, <1>3 DEF IInv, TypeOK
    <3> QED
      BY <1>3, <3>1 DEF IInv, PlaceShape
  <2>2. ASSUME NEW e \in {"ok", "error"}, call'[c].conn # None, In(e, call'[c].inbox)
        PROVE  conn'[call'[c].conn].ran = Run(c, e)
    <3>1. call[c].conn \in Conns /\ call[c].conn = call'[c].conn
      BY <1>3, <2>2 DEF IInv, TypeOK, CallRecs, Ids
    <3>2. CASE call[c].conn # k
      <4>1. call'[c].inbox = call[c].inbox
        BY <1>3, <3>2 DEF IInv, TypeOK
      <4> QED
        BY <1>2, <2>2, <3>1, <3>2, <4>1 DEF IInv, InboxShape
    <3>3. CASE call[c].conn = k
      <4>1. conn[k].att = c /\ d.ran = conn[k].ran /\ c # None
        BY <1>1, <3>3 DEF Served, IInv, TypeOK, SandboxAssumption
      <4>2. CASE In(e, call[c].inbox)
        BY <1>2, <3>1, <3>3, <4>1, <4>2 DEF IInv, InboxShape
      <4>3. CASE In(e, conn[k].up)
        <5>1. conn[k].ran # None /\ conn[k].ran.as = e /\ conn[k].ran.by = c
          BY <1>1, <4>1, <4>3 DEF ConnShape, Exits
        <5>2. conn[k].ran \in Runs
          BY <1>1, <5>1 DEF ConnRecs
        <5>3. conn[k].ran = Run(c, e)
          BY <5>1, <5>2 DEF Run, Runs
        <5> QED
          BY <1>2, <3>1, <3>3, <4>1, <5>3
      <4> QED
        BY <1>3, <2>2, <4>2, <4>3
    <3> QED
      BY <3>2, <3>3
  <2> QED
    BY <2>1, <2>2 DEF InboxShape
<1> QED
  BY <1>3, <1>4, <1>5, <1>6, <1>7, <1>8 DEF Served, IInv

LEMMA OverType ==
    ASSUME SandboxAssumption, NEW c \in ConnRecs
    PROVE  /\ Over(c) \in ConnRecs /\ Over(c).at = "gone" /\ Over(c).att = c.att /\ ~ Over(c).open
           /\ Over(c).job = None /\ \A f : ~ In(f, Over(c).up)
           /\ Over(c).ran = IF c.att = None THEN None ELSE c.ran
<1>1. Closed \in ConnRecs /\ \A f : ~ In(f, Closed.up)
  BY ClosedType, NoFrame DEF Closed
<1>2. Closed.at = "gone" /\ Closed.att = None /\ ~ Closed.open /\ Closed.job = None /\ Closed.ran = None
  BY DEF Closed
<1>3. CASE c.att = None
  BY <1>1, <1>2, <1>3 DEF Over
<1>4. CASE c.att # None
  BY <1>1, <1>2, <1>4 DEF Over, ConnRecs
<1> QED
  BY <1>3, <1>4

(* serve has read the end: the record is what Over leaves of it.           *)
LEMMA OverServed ==
    ASSUME SandboxAssumption, IInv, NEW k \in Conns, conn[k].at \in {"serving", "drain"},
           In("eof", conn[k].up), conn' = [conn EXCEPT ![k] = Over(@)], current' = None,
           UNCHANGED <<guard, idle, backlog, honest, approved, usable, upsets>>
    PROVE  Served(k, Over(conn[k]))
<1>1. conn[k] \in ConnRecs /\ ConnShape(conn[k], idle = k) /\ ~ conn[k].open
  BY DEF IInv, TypeOK, ConnShape
<1> DEFINE d == Over(conn[k])
<1>2. /\ d \in ConnRecs /\ d.at = "gone" /\ d.att = conn[k].att /\ ~ d.open
      /\ d.job = None /\ \A f : ~ In(f, d.up)
      /\ d.ran = IF conn[k].att = None THEN None ELSE conn[k].ran
  BY <1>1, OverType
<1>3. conn' = [conn EXCEPT ![k] = d] /\ conn[k].open \in BOOLEAN
  BY <1>1 DEF ConnRecs
<1> HIDE DEF d
<1>4. ConnShape(d, idle = k)
  BY <1>1, <1>2 DEF ConnShape
<1>5. d.open = conn[k].open
  BY <1>1, <1>2, <1>3 DEF ConnRecs
<1>6. Served(k, d)
  BY <1>1, <1>2, <1>3, <1>4, <1>5 DEF Served, IInv, TypeOK
<1> QED
  BY <1>6 DEF d

(* serve has read a frame that leaves the connection as it is, or in a     *)
(* later phase.                                                            *)
LEMMA ReadServed ==
    ASSUME SandboxAssumption, IInv, NEW k \in Conns, conn[k].at \in {"serving", "drain"},
           conn[k].up # <<>>, NEW at \in {conn[k].at, "drain"},
           conn' = [conn EXCEPT ![k] = Heard(@, at)],
           UNCHANGED <<guard, current, idle, backlog, honest, approved, usable, upsets>>
    PROVE  Served(k, Heard(conn[k], at))
<1>1. conn[k] \in ConnRecs /\ ConnShape(conn[k], idle = k)
  BY DEF IInv, TypeOK
<1> DEFINE u == Tail(conn[k].up)
           d == [conn[k] EXCEPT !.up = u, !.at = at]
<1>2. u \in Seq(Frames) /\ \A f : In(f, u) => In(f, conn[k].up)
  BY ConnFields, FirstFrame DEF IInv
<1> HIDE DEF u
<1>3. /\ d \in ConnRecs /\ d.at = at /\ d.att = conn[k].att /\ d.open = conn[k].open
      /\ d.job = conn[k].job /\ d.ran = conn[k].ran /\ d.up = u
  BY <1>1, <1>2 DEF ConnRecs
<1>4. conn' = [conn EXCEPT ![k] = d]
  BY DEF u, Heard
<1> HIDE DEF d
<1>5. ConnShape(d, idle = k)
  BY <1>1, <1>2, <1>3 DEF ConnShape
<1>6. Served(k, d)
  BY <1>1, <1>3, <1>4, <1>5 DEF Served, IInv, TypeOK
<1> QED
  BY <1>6 DEF d, u, Heard

LEMMA ReadHelloKeeps ==
    ASSUME SandboxAssumption, IInv, NEW k \in Conns, ReadHello(k)
    PROVE  IInv'
<1>1. /\ conn[k] \in ConnRecs /\ ConnShape(conn[k], idle = k) /\ conn[k].at = "hello"
      /\ conn[k].up # <<>> /\ k # None
  BY DEF ReadHello, Arrived, IInv, TypeOK, SandboxAssumption
<1> DEFINE u == Tail(conn[k].up)
           d == [conn[k] EXCEPT !.at = "serving", !.up = u]
<1>2. u \in Seq(Frames) /\ \A f : In(f, u) => In(f, conn[k].up)
  BY <1>1, ConnFields, FirstFrame DEF IInv
<1> HIDE DEF u
<1>3. /\ d \in ConnRecs /\ d.at = "serving" /\ d.att = conn[k].att /\ d.open = conn[k].open
      /\ d.job = conn[k].job /\ d.ran = conn[k].ran /\ d.up = u
  BY <1>1, <1>2 DEF ConnRecs
<1>4. conn' = [conn EXCEPT ![k] = d]
  BY DEF ReadHello, Heard, u
<1> HIDE DEF d
<1>5. ConnShape(d, idle' = k)
  BY <1>1, <1>2, <1>3 DEF ConnShape
<1>6. /\ idle' \in {idle, k} /\ (idle' # idle => idle = None) /\ usable' \in BOOLEAN
  BY <1>1 DEF ReadHello, ConnRecs
<1>7. Served(k, d) /\ Delivered(k)
  BY <1>1, <1>3, <1>4, <1>5, <1>6 DEF ReadHello, Served, Delivered
<1> QED
  BY <1>7, ServedKeeps

LEMMA HelloFailsKeeps ==
    ASSUME SandboxAssumption, IInv, NEW k \in Conns, HelloFails(k)
    PROVE  IInv'
<1>1. conn[k] \in ConnRecs /\ ConnShape(conn[k], idle = k) /\ conn[k].at = "hello"
  BY DEF HelloFails, IInv, TypeOK
<1> DEFINE d == [conn[k] EXCEPT !.at = "drain", !.shut = TRUE]
<1>2. /\ d \in ConnRecs /\ d.at = "drain" /\ d.att = conn[k].att /\ d.open = conn[k].open
      /\ d.job = conn[k].job /\ d.ran = conn[k].ran /\ d.up = conn[k].up
  BY <1>1 DEF ConnRecs
<1>3. conn' = [conn EXCEPT ![k] = d]
  BY DEF HelloFails
<1> HIDE DEF d
<1>4. ConnShape(d, idle = k)
  BY <1>1, <1>2 DEF ConnShape
<1>5. Served(k, d) /\ Delivered(k)
  BY <1>1, <1>2, <1>3, <1>4 DEF HelloFails, Served, Delivered, slot, IInv, TypeOK
<1> QED
  BY <1>5, ServedKeeps

LEMMA ReadFrameKeeps ==
    ASSUME SandboxAssumption, IInv, NEW k \in Conns, ReadFrame(k)
    PROVE  IInv'
<1> DEFINE f == Head(conn[k].up)
<1>1. conn[k].up # <<>> /\ Arrived(k) = f /\ conn[k].at = "serving"
  BY DEF ReadFrame, Arrived
<1>2. f \in Frames /\ In(f, conn[k].up)
  BY <1>1, ConnFields, FirstFrame DEF IInv
<1>3. Delivered(k)
  <2>1. CASE conn[k].att = None
    BY <2>1 DEF ReadFrame, Delivered
  <2>2. CASE conn[k].att # None
    <3>1. conn[k].att \in Calls
      BY <2>2, ConnFields DEF IInv
    <3>2. call' = [call EXCEPT ![conn[k].att].inbox = Append(@, f)]
      BY <1>1, <2>2 DEF ReadFrame
    <3> QED
      BY <1>2, <3>1, <3>2 DEF Delivered
  <2> QED
    BY <2>1, <2>2
<1>4. CASE f = "eof"
  <2>1. conn' = [conn EXCEPT ![k] = Over(@)] /\ current' = None
    BY <1>1, <1>4 DEF ReadFrame
  <2>2. Served(k, Over(conn[k]))
    BY <1>1, <1>2, <1>4, <2>1, OverServed DEF ReadFrame
  <2> QED
    BY <1>3, <2>2, ServedKeeps
<1>5. CASE f = "large"
  <2>1. conn' = [conn EXCEPT ![k] = Heard(@, "drain")] /\ current' = current
    BY <1>1, <1>5 DEF ReadFrame
  <2>2. Served(k, Heard(conn[k], "drain"))
    BY <1>1, <2>1, ReadServed DEF ReadFrame
  <2> QED
    BY <1>3, <2>2, ServedKeeps
<1>6. CASE f \notin {"eof", "large"}
  <2>1. conn' = [conn EXCEPT ![k] = Heard(@, "serving")] /\ current' = current
    BY <1>1, <1>6 DEF ReadFrame
  <2>2. Served(k, Heard(conn[k], "serving"))
    BY <1>1, <2>1, ReadServed DEF ReadFrame
  <2> QED
    BY <1>3, <2>2, ServedKeeps
<1> QED
  BY <1>4, <1>5, <1>6

LEMMA DrainKeeps ==
    ASSUME SandboxAssumption, IInv, NEW k \in Conns, Drain(k)
    PROVE  IInv'
<1> DEFINE f == Head(conn[k].up)
<1>1. conn[k].up # <<>> /\ Arrived(k) = f /\ conn[k].at = "drain"
  BY DEF Drain, Arrived
<1>2. f \in Frames /\ In(f, conn[k].up)
  BY <1>1, ConnFields, FirstFrame DEF IInv
<1>3. Delivered(k)
  BY DEF Drain, Delivered
<1>4. CASE f = "eof"
  <2>1. conn' = [conn EXCEPT ![k] = Over(@)] /\ current' = None
    BY <1>1, <1>4 DEF Drain
  <2>2. Served(k, Over(conn[k]))
    BY <1>1, <1>2, <1>4, <2>1, OverServed DEF Drain
  <2> QED
    BY <1>3, <2>2, ServedKeeps
<1>5. CASE f # "eof"
  <2>1. conn' = [conn EXCEPT ![k] = Heard(@, "drain")] /\ current' = current
    BY <1>1, <1>5 DEF Drain
  <2>2. Served(k, Heard(conn[k], "drain"))
    BY <1>1, <2>1, ReadServed DEF Drain
  <2> QED
    BY <1>3, <2>2, ServedKeeps
<1> QED
  BY <1>4, <1>5

-----------------------------------------------------------------------------
(* Steps of a request.                                                     *)

(* A request goes on to q and its connections stay as they are.            *)
GoesOn(c, q) ==
    /\ q \in CallRecs /\ call' = [call EXCEPT ![c] = q]
    /\ UNCHANGED <<guard, conn, current, backlog, approved, usable, upsets>>
    /\ idle' \in {idle, None} /\ honest' = TRUE
    /\ q.conn = call[c].conn /\ PlaceShape(q) /\ (q.stale => call[c].stale)
    /\ \A e \in {"ok", "error"} : In(e, q.inbox) => In(e, call[c].inbox)

LEMMA GoesOnKeeps ==
    ASSUME SandboxAssumption, IInv, NEW c \in Calls, NEW q, GoesOn(c, q)
    PROVE  IInv'
<1>1. call' \in [Calls -> CallRecs] /\ \A b \in Calls : call'[b] = IF b = c THEN q ELSE call[b]
  BY DEF GoesOn, IInv, TypeOK
<1>2. \A b \in Calls : /\ call'[b].conn = call[b].conn /\ (call'[b].stale => call[b].stale)
                       /\ \A e \in {"ok", "error"} : In(e, call'[b].inbox) => In(e, call[b].inbox)
  BY <1>1 DEF GoesOn
<1>3. TypeOK'
  BY <1>1, <1>2 DEF GoesOn, IInv, TypeOK, Ids
<1>4. (\A g \in Guards : GuardShape(guard[g], conn[guard[g].conn]))' /\ HolderShape' /\ BacklogShape'
  BY DEF GoesOn, IInv, HolderShape, Held, BacklogShape
<1>5. ASSUME NEW j \in Conns PROVE ConnShape(conn'[j], idle' = j)
  <2>1. ConnShape(conn[j], idle = j) /\ (idle' = j => idle = j) /\ conn' = conn
    BY DEF GoesOn, IInv, SandboxAssumption
  <2> QED
    BY <2>1 DEF ConnShape
<1>6. ASSUME NEW b \in Calls PROVE PlaceShape(call'[b]) /\ InboxShape(b)'
  <2>1. PlaceShape(call'[b])
    BY <1>1 DEF GoesOn, IInv
  <2>2. InboxShape(b)'
    BY <1>2 DEF GoesOn, IInv, InboxShape
  <2> QED
    BY <2>1, <2>2
<1> QED
  BY <1>2, <1>3, <1>4, <1>5, <1>6 DEF GoesOn, IInv

(* A request goes on to q, and d is left of the connection k it has, takes *)
(* or gives back.                                                          *)
Asked(c, q, k, d) ==
    /\ q \in CallRecs /\ d \in ConnRecs
    /\ call' = [call EXCEPT ![c] = q] /\ conn' = [conn EXCEPT ![k] = d]
    /\ UNCHANGED <<guard, current, backlog, approved, usable, upsets>>
    /\ idle' \in {idle, None} /\ honest' = TRUE
    /\ PlaceShape(q) /\ (q.stale => call[c].stale)
    /\ d.at = conn[k].at /\ d.open = conn[k].open
    /\ d.ran = conn[k].ran \/ (~ d.open /\ d.att = None)
    /\ q.conn \in {k, None} /\ call[c].conn \in {k, None} /\ conn[k].att \in {c, None}
    /\ d.att = IF q.conn = k THEN c ELSE None
    /\ ConnShape(d, idle' = k)
    /\ \A e \in {"ok", "error"} : q.conn # None /\ In(e, q.inbox) => d.ran = Run(c, e)

LEMMA AskedKeeps ==
    ASSUME SandboxAssumption, IInv, NEW c \in Calls, NEW k \in Conns, NEW q, NEW d, Asked(c, q, k, d)
    PROVE  IInv'
<1>1. /\ call' \in [Calls -> CallRecs] /\ \A b \in Calls : call'[b] = IF b = c THEN q ELSE call[b]
      /\ conn' \in [Conns -> ConnRecs] /\ \A j \in Conns : conn'[j] = IF j = k THEN d ELSE conn[j]
      /\ k # None /\ c # None
  BY DEF Asked, IInv, TypeOK, SandboxAssumption
<1>2. \A b \in Calls \ {c} : call[b].conn # k
  BY <1>1 DEF Asked, IInv, TypeOK, SandboxAssumption
<1>3. TypeOK'
  <2>1. \A j \in Conns : conn'[j].at = conn[j].at
    BY <1>1 DEF Asked
  <2>2. ASSUME NEW j \in Conns, NEW b \in Calls PROVE conn'[j].att = b <=> call'[b].conn = j
    <3>1. CASE j = k
      BY <1>1, <1>2, <3>1 DEF Asked, SandboxAssumption
    <3>2. CASE j # k
      <4>1. conn'[j] = conn[j] /\ (conn[j].att = b <=> call[b].conn = j)
        BY <1>1, <3>2 DEF IInv, TypeOK
      <4>2. b = c => call'[b].conn # j /\ call[b].conn # j
        BY <1>1, <3>2 DEF Asked, SandboxAssumption
      <4>3. b # c => call'[b] = call[b]
        BY <1>1
      <4> QED
        BY <4>1, <4>2, <4>3
    <3> QED
      BY <3>1, <3>2
  <2>3. idle' \in Ids
    BY DEF Asked, IInv, TypeOK, Ids
  <2> QED
    BY <1>1, <2>1, <2>2, <2>3 DEF Asked, IInv, TypeOK
<1>4. (\A g \in Guards : GuardShape(guard[g], conn[guard[g].conn]))' /\ HolderShape'
  <2>1. OwnSide
    BY <1>1 DEF Asked, OwnSide
  <2> QED
    BY <2>1, GuardsStay
<1>5. ASSUME NEW j \in Conns PROVE ConnShape(conn'[j], idle' = j)
  <2>1. CASE j = k
    BY <1>1, <2>1 DEF Asked
  <2>2. CASE j # k
    <3>1. ConnShape(conn[j], idle = j) /\ (idle' = j => idle = j) /\ conn'[j] = conn[j]
      BY <1>1, <2>2 DEF Asked, IInv, SandboxAssumption
    <3> QED
      BY <3>1 DEF ConnShape
  <2> QED
    BY <2>1, <2>2
<1>6. BacklogShape'
  <2>1. \A j \in Conns : conn'[j].at = conn[j].at
    BY <1>1 DEF Asked
  <2>2. \A i \in 1 .. Len(backlog) : backlog[i] \in Conns
    BY DEF IInv, TypeOK
  <2> QED
    BY <2>1, <2>2 DEF Asked, IInv, BacklogShape
<1>7. ASSUME NEW b \in Calls PROVE PlaceShape(call'[b]) /\ InboxShape(b)'
  <2>1. PlaceShape(call'[b])
    BY <1>1 DEF Asked, IInv
  <2>2. InboxShape(b)'
    <3>1. CASE b = c
      BY <1>1, <3>1 DEF Asked, InboxShape
    <3>2. CASE b # c
      <4>1. call'[b] = call[b] /\ (call[b].conn # None => call[b].conn \in Conns \ {k})
        BY <1>1, <1>2, <3>2 DEF IInv, TypeOK, CallRecs, Ids
      <4> QED
        BY <1>1, <4>1 DEF IInv, InboxShape
    <3> QED
      BY <3>1, <3>2
  <2> QED
    BY <2>1, <2>2
<1>8. \A b \in Calls : call'[b].stale => call[b].stale
  BY <1>1 DEF Asked
<1> QED
  BY <1>3, <1>4, <1>5, <1>6, <1>7, <1>8 DEF Asked, IInv

LEMMA QuietType ==
    /\ Quiet \in CallRecs /\ PlaceShape(Quiet) /\ Quiet.conn = None /\ ~ Quiet.stale
    /\ \A e : ~ In(e, Quiet.inbox)
<1>1. Quiet.inbox \in Seq(Frames) /\ \A e : ~ In(e, Quiet.inbox)
  BY NoFrame DEF Quiet
<1> QED
  BY <1>1 DEF Quiet, CallRecs, Ids, PlaceShape

(* What IInv says of a request and its connection.                         *)
LEMMA Having ==
    ASSUME SandboxAssumption, IInv, NEW c \in Calls
    PROVE  /\ call[c] \in CallRecs /\ PlaceShape(call[c]) /\ c # None
           /\ call[c].conn # None =>
                 /\ call[c].conn \in Conns /\ conn[call[c].conn] \in ConnRecs
                 /\ ConnShape(conn[call[c].conn], idle = call[c].conn)
                 /\ conn[call[c].conn].att = c /\ idle # call[c].conn
<1>1. call[c] \in CallRecs /\ PlaceShape(call[c]) /\ c # None
  BY DEF IInv, TypeOK, SandboxAssumption
<1>2. ASSUME call[c].conn # None
      PROVE  call[c].conn \in Conns /\ conn[call[c].conn].att = c
  BY <1>1, <1>2 DEF IInv, TypeOK, CallRecs, Ids
<1>3. ASSUME call[c].conn # None
      PROVE  /\ conn[call[c].conn] \in ConnRecs
             /\ ConnShape(conn[call[c].conn], idle = call[c].conn)
  BY <1>2, <1>3 DEF IInv, TypeOK
<1>4. ASSUME call[c].conn # None
      PROVE  idle # call[c].conn
  BY <1>1, <1>2, <1>3, <1>4 DEF ConnShape
<1> QED
  BY <1>1, <1>2, <1>3, <1>4

LEMMA DetachedType ==
    ASSUME SandboxAssumption, NEW c \in ConnRecs
    PROVE  LET d == [c EXCEPT !.att = None, !.shut = TRUE]
           IN  /\ d \in ConnRecs /\ d.at = c.at /\ d.up = c.up /\ d.job = c.job /\ d.open = c.open
               /\ d.ran = c.ran /\ d.att = None
BY DEF ConnRecs

(* An answer is honest when an end is only said from the inbox.            *)
LEMMA AnswerKeeps ==
    ASSUME SandboxAssumption, IInv, NEW c \in Calls, NEW end, Answer(c, end),
           end \in {"ok", "error"} => call[c].conn # None /\ In(end, call[c].inbox),
           UNCHANGED <<guard, slot, approved, usable, upsets>>
    PROVE  IInv'
<1>1. call' = [call EXCEPT ![c] = Quiet]
  BY DEF Answer
<1>2. honest' = TRUE
  <2>1. end \in {"ok", "error"} => conn[call[c].conn].ran = Run(c, end)
    BY DEF IInv, InboxShape
  <2> QED
    BY <2>1 DEF Answer, IInv
<1>3. CASE call[c].conn = None
  <2>1. GoesOn(c, Quiet)
    BY <1>1, <1>2, <1>3, QuietType DEF Answer, GoesOn, slot
  <2> QED
    BY <2>1, GoesOnKeeps
<1>4. CASE call[c].conn # None
  <2>1. PICK k \in Conns : /\ call[c].conn = k /\ conn[k] \in ConnRecs /\ ConnShape(conn[k], idle = k)
                           /\ conn[k].att = c /\ idle # k /\ k # None /\ c # None
    BY <1>4, Having
  <2>2. CASE conn[k].at = "gone"
    <3>1. conn' = [conn EXCEPT ![k] = Closed]
      BY <1>4, <2>1, <2>2 DEF Answer
    <3>2. ~ conn[k].open /\ conn[k].open \in BOOLEAN
      BY <2>1, <2>2 DEF ConnShape, ConnRecs
    <3>3. /\ Closed \in ConnRecs /\ Closed.at = "gone" /\ Closed.att = None /\ Closed.open = FALSE
          /\ Closed.ran = None /\ Closed.job = None /\ \A f : ~ In(f, Closed.up)
      BY ClosedType, NoFrame DEF Closed
    <3>4. ConnShape(Closed, idle = k)
      BY <3>3 DEF ConnShape
    <3>5. Asked(c, Quiet, k, Closed)
      BY <1>1, <1>2, <2>1, <2>2, <3>1, <3>2, <3>3, <3>4, QuietType DEF Asked, slot
    <3> QED
      BY <3>5, AskedKeeps
  <2>3. CASE conn[k].at # "gone"
    <3> DEFINE d == [conn[k] EXCEPT !.att = None, !.shut = TRUE]
    <3>1. conn' = [conn EXCEPT ![k] = d]
      BY <1>4, <2>1, <2>3 DEF Answer
    <3>2. /\ d \in ConnRecs /\ d.at = conn[k].at /\ d.up = conn[k].up /\ d.job = conn[k].job
          /\ d.open = conn[k].open /\ d.ran = conn[k].ran /\ d.att = None
      BY <2>1, DetachedType
    <3> HIDE DEF d
    <3>3. ConnShape(d, idle = k)
      BY <2>1, <3>2 DEF ConnShape
    <3>4. Asked(c, Quiet, k, d)
      BY <1>1, <1>2, <2>1, <3>1, <3>2, <3>3, QuietType DEF Asked, slot
    <3> QED
      BY <3>4, AskedKeeps
  <2> QED
    BY <2>2, <2>3
<1> QED
  BY <1>3, <1>4

(* A request that only goes on to another phase.                           *)
LEMMA ToKeeps ==
    ASSUME SandboxAssumption, IInv, NEW c \in Calls, NEW pc \in {"wait", "loop", "tool"}, To(c, pc),
           UNCHANGED <<guard, conn, slot, honest, approved, usable, upsets>>,
           pc = "wait" <=> call[c].conn = None, call[c].stale => pc = "wait"
    PROVE  IInv'
<1> DEFINE q == [call[c] EXCEPT !.pc = pc]
<1>1. call[c] \in CallRecs /\ PlaceShape(call[c]) /\ c # None
  BY Having
<1>2. /\ q \in CallRecs /\ q.pc = pc /\ q.conn = call[c].conn /\ q.inbox = call[c].inbox
      /\ q.stale = call[c].stale
  BY <1>1 DEF CallRecs
<1>3. call' = [call EXCEPT ![c] = q]
  BY DEF To
<1> HIDE DEF q
<1>4. PlaceShape(q)
  BY <1>1, <1>2 DEF PlaceShape
<1>5. GoesOn(c, q)
  BY <1>2, <1>3, <1>4 DEF GoesOn, IInv, slot
<1> QED
  BY <1>5, GoesOnKeeps

LEMMA AdmitKeeps ==
    ASSUME SandboxAssumption, IInv, NEW c \in Calls, Admit(c)
    PROVE  IInv'
<1>1. call[c].conn = None /\ To(c, "wait") /\ UNCHANGED <<guard, conn, slot, honest, approved, usable, upsets>>
  BY DEF Admit, IInv, PlaceShape
<1> QED
  BY <1>1, ToKeeps

LEMMA AcquireKeeps ==
    ASSUME SandboxAssumption, IInv, NEW c \in Calls, Acquire(c)
    PROVE  IInv'
<1>1. PICK k \in Conns : idle = k
  BY DEF Acquire, IInv, TypeOK, Ids
<1>2. /\ conn[k] \in ConnRecs /\ ConnShape(conn[k], TRUE) /\ k # None
      /\ call[c] \in CallRecs /\ PlaceShape(call[c]) /\ c # None
      /\ call[c].conn = None /\ call[c].inbox = <<>> /\ idle' = None
  <2>1. ConnShape(conn[k], idle = k) /\ (idle = k) = TRUE
    BY <1>1 DEF IInv
  <2>2. ConnShape(conn[k], TRUE)
    BY <2>1
  <2>3. conn[k] \in ConnRecs /\ k # None
    BY DEF IInv, TypeOK, SandboxAssumption
  <2>4. call[c] \in CallRecs /\ PlaceShape(call[c]) /\ c # None
    BY Having
  <2>5. call[c].pc = "wait" /\ idle' = None
    BY DEF Acquire
  <2>6. call[c].conn = None /\ call[c].inbox = <<>>
    BY <2>4, <2>5 DEF PlaceShape
  <2> QED
    BY <2>2, <2>3, <2>4, <2>5, <2>6
<1>3. UNCHANGED <<guard, current, backlog, honest, approved, usable, upsets>>
  BY DEF Acquire
<1>4. conn[k].att = None /\ conn[k].job = None /\ conn[k].ran = None
      /\ conn[k].at \notin {"queued", "hello"}
  BY <1>2 DEF ConnShape
<1>5. CASE conn[k].at = "gone"
  <2>1. UNCHANGED <<call, conn>>
    BY <1>1, <1>5 DEF Acquire
  <2>2. call' = [call EXCEPT ![c] = call[c]]
    BY <2>1 DEF IInv, TypeOK
  <2>3. GoesOn(c, call[c])
    BY <1>2, <1>3, <2>1, <2>2 DEF GoesOn, IInv
  <2> QED
    BY <2>3, GoesOnKeeps
<1>6. CASE conn[k].at # "gone" /\ approved
  <2> DEFINE q == [call[c] EXCEPT !.pc = "write", !.conn = k]
             d == [conn[k] EXCEPT !.att = c]
  <2>1. call' = [call EXCEPT ![c] = q] /\ conn' = [conn EXCEPT ![k] = d]
    BY <1>1, <1>6 DEF Acquire, Take
  <2>2. /\ q \in CallRecs /\ q.pc = "write" /\ q.conn = k /\ q.inbox = <<>> /\ q.stale = call[c].stale
    BY <1>2 DEF CallRecs, Ids
  <2>3. /\ d \in ConnRecs /\ d.at = conn[k].at /\ d.up = conn[k].up /\ d.job = None
        /\ d.open = conn[k].open /\ d.ran = None /\ d.att = c
    BY <1>2, <1>4 DEF ConnRecs
  <2> HIDE DEF q, d
  <2>4. PlaceShape(q)
    BY <1>2, <1>6, <2>2 DEF PlaceShape, IInv
  <2>5. ConnShape(d, idle' = k)
    BY <1>2, <1>4, <1>6, <2>3 DEF ConnShape
  <2>6. Asked(c, q, k, d)
    BY <1>2, <1>3, <1>4, <2>1, <2>2, <2>3, <2>4, <2>5, NoFrame DEF Asked, IInv
  <2> QED
    BY <2>6, AskedKeeps
<1>7. CASE conn[k].at # "gone" /\ ~ approved
  <2> DEFINE d == [conn[k] EXCEPT !.shut = TRUE]
  <2>1. call' = [call EXCEPT ![c] = Quiet] /\ conn' = [conn EXCEPT ![k] = d]
    BY <1>1, <1>7 DEF Acquire
  <2>2. /\ d \in ConnRecs /\ d.at = conn[k].at /\ d.up = conn[k].up /\ d.job = None
        /\ d.open = conn[k].open /\ d.ran = None /\ d.att = None
    BY <1>2, <1>4 DEF ConnRecs
  <2> HIDE DEF d
  <2>3. ConnShape(d, idle' = k)
    BY <1>2, <1>4, <2>2 DEF ConnShape
  <2>4. Asked(c, Quiet, k, d)
    BY <1>2, <1>3, <1>4, <2>1, <2>2, <2>3, QuietType DEF Asked, IInv
  <2> QED
    BY <2>4, AskedKeeps
<1> QED
  BY <1>5, <1>6, <1>7

LEMMA WriteJobKeeps ==
    ASSUME SandboxAssumption, IInv, NEW c \in Calls, WriteJob(c)
    PROVE  IInv'
<1>1. call[c].conn # None /\ ~ call[c].stale
  BY DEF WriteJob, IInv, PlaceShape
<1>2. PICK k \in Conns : /\ call[c].conn = k /\ conn[k] \in ConnRecs /\ ConnShape(conn[k], idle = k)
                         /\ conn[k].att = c /\ idle # k /\ k # None /\ c # None
                         /\ call[c] \in CallRecs /\ PlaceShape(call[c])
  BY <1>1, Having
<1>3. UNCHANGED <<guard, slot, approved, usable, upsets>>
  BY DEF WriteJob
<1>4. CASE conn[k].open
  <2> DEFINE q == [call[c] EXCEPT !.pc = "loop"]
             d == [conn[k] EXCEPT !.job = c]
  <2>1. call' = [call EXCEPT ![c] = q] /\ conn' = [conn EXCEPT ![k] = d] /\ UNCHANGED honest
    BY <1>2, <1>4 DEF WriteJob, To
  <2>2. /\ q \in CallRecs /\ q.pc = "loop" /\ q.conn = k /\ q.inbox = call[c].inbox
        /\ q.stale = call[c].stale
    BY <1>2 DEF CallRecs
  <2>3. /\ d \in ConnRecs /\ d.at = conn[k].at /\ d.up = conn[k].up /\ d.job = c
        /\ d.open = conn[k].open /\ d.ran = conn[k].ran /\ d.att = c
    BY <1>2 DEF ConnRecs
  <2> HIDE DEF q, d
  <2>4. PlaceShape(q)
    BY <1>1, <1>2, <2>2 DEF PlaceShape
  <2>5. ConnShape(d, idle = k)
    BY <1>2, <2>3 DEF ConnShape
  <2>6. \A e \in {"ok", "error"} : In(e, call[c].inbox) => conn[k].ran = Run(c, e)
    BY <1>2 DEF IInv, InboxShape
  <2>7. Asked(c, q, k, d)
    BY <1>2, <1>3, <2>1, <2>2, <2>3, <2>4, <2>5, <2>6 DEF Asked, IInv, slot
  <2> QED
    BY <2>7, AskedKeeps
<1>5. CASE ~ conn[k].open
  <2>1. Answer(c, "limit")
    BY <1>2, <1>5 DEF WriteJob
  <2> QED
    BY <1>3, <2>1, AnswerKeeps
<1> QED
  BY <1>4, <1>5

LEMMA HandleKeeps ==
    ASSUME SandboxAssumption, IInv, NEW c \in Calls, Handle(c)
    PROVE  IInv'
<1> DEFINE f == Head(call[c].inbox)
<1>1. /\ call[c] \in CallRecs /\ PlaceShape(call[c]) /\ call[c].pc = "loop" /\ call[c].inbox # <<>>
      /\ call[c].inbox \in Seq(Frames) /\ c # None
  BY Having DEF Handle, CallRecs
<1>2. call[c].conn # None /\ ~ call[c].stale
  BY <1>1 DEF PlaceShape
<1>3. In(f, call[c].inbox) /\ Tail(call[c].inbox) \in Seq(Frames)
      /\ \A x : In(x, Tail(call[c].inbox)) => In(x, call[c].inbox)
  BY <1>1, FirstFrame
<1>4. UNCHANGED <<guard, slot, approved, usable, upsets>>
  BY DEF Handle
<1>5. ASSUME NEW pc \in {"loop", "tool"}, UNCHANGED <<conn, honest>>,
             call' = [call EXCEPT ![c] = [@ EXCEPT !.inbox = Tail(call[c].inbox), !.pc = pc]]
      PROVE  IInv'
  <2> DEFINE u == Tail(call[c].inbox)
             q == [call[c] EXCEPT !.inbox = u, !.pc = pc]
  <2>1. call' = [call EXCEPT ![c] = q]
    BY <1>5
  <2> HIDE DEF u
  <2>2. /\ q \in CallRecs /\ q.pc = pc /\ q.conn = call[c].conn /\ q.inbox = u
        /\ q.stale = call[c].stale
    BY <1>1, <1>3 DEF CallRecs, u
  <2> HIDE DEF q
  <2>3. PlaceShape(q)
    BY <1>2, <2>2 DEF PlaceShape
  <2>4. GoesOn(c, q)
    BY <1>3, <1>4, <1>5, <2>1, <2>2, <2>3 DEF GoesOn, IInv, slot, u
  <2> QED
    BY <2>4, GoesOnKeeps
<1>6. CASE Answer(c, "limit")
  BY <1>4, <1>6, AnswerKeeps
<1>7. CASE f \in {"ok", "error"} /\ Answer(c, f)
  BY <1>2, <1>3, <1>4, <1>7, AnswerKeeps
<1> QED
  BY <1>5, <1>6, <1>7 DEF Handle

LEMMA ToolReturnsKeeps ==
    ASSUME SandboxAssumption, IInv, NEW c \in Calls, ToolReturns(c)
    PROVE  IInv'
<1>1. call[c].conn # None /\ ~ call[c].stale
  BY DEF ToolReturns, IInv, PlaceShape
<1>2. UNCHANGED <<guard, slot, approved, usable, upsets>>
  BY DEF ToolReturns
<1>3. CASE To(c, "loop") /\ UNCHANGED <<conn, honest>>
  BY <1>1, <1>2, <1>3, ToKeeps
<1>4. CASE Answer(c, "limit")
  BY <1>2, <1>4, AnswerKeeps
<1> QED
  BY <1>3, <1>4 DEF ToolReturns

(* The answers that say no end of a script.                                *)
LEMMA OtherAnswersKeep ==
    ASSUME SandboxAssumption, IInv, NEW c \in Calls,
           Refuse(c) \/ Busy(c) \/ Wall(c) \/ Lost(c) \/ Cancelled(c)
    PROVE  IInv'
<1>1. PICK end \in {"refused", "busy", "timeout", "limit", "internal"} : Answer(c, end)
  BY DEF Refuse, Busy, Wall, Lost, Cancelled
<1>2. UNCHANGED <<guard, slot, approved, usable, upsets>>
  BY DEF Refuse, Busy, Wall, Lost, Cancelled
<1> QED
  BY <1>1, <1>2, AnswerKeeps

LEMMA CallKeeps ==
    ASSUME SandboxAssumption, IInv, NEW c \in Calls,
           CallStep(c) \/ Admit(c) \/ Refuse(c) \/ ToolReturns(c) \/ Wall(c) \/ Cancelled(c)
    PROVE  IInv'
BY AcquireKeeps, WriteJobKeeps, HandleKeeps, AdmitKeeps, ToolReturnsKeeps, OtherAnswersKeep DEF CallStep

-----------------------------------------------------------------------------
(* The approval, a restart of the mediator.                                *)

(* Only what the requests know of the approval changes.                    *)
LEMMA ApprovalKeeps ==
    ASSUME SandboxAssumption, IInv, Withdraw \/ Approve
    PROVE  IInv'
<1>1. /\ UNCHANGED <<guard, conn, slot, honest, usable>> /\ upsets' \in 0 .. MaxUpsets
      /\ approved' \in BOOLEAN
  BY UpsetType DEF Withdraw, Approve, IInv, TypeOK
<1>2. /\ call' \in [Calls -> CallRecs]
      /\ \A c \in Calls : /\ call'[c].pc = call[c].pc /\ call'[c].conn = call[c].conn
                          /\ call'[c].inbox = call[c].inbox
                          /\ call'[c].stale => call'[c].pc = "wait" /\ ~ approved'
  <2>1. \A c \in Calls : call[c] \in CallRecs /\ (call[c].stale => call[c].pc = "wait")
    BY DEF IInv, TypeOK, PlaceShape
  <2>2. CASE Withdraw
    <3> DEFINE r(c) == [call[c] EXCEPT !.stale = @ \/ call[c].pc = "wait"]
    <3>1. ASSUME NEW c \in Calls
          PROVE  /\ r(c) \in CallRecs /\ r(c).pc = call[c].pc /\ r(c).conn = call[c].conn
                 /\ r(c).inbox = call[c].inbox
                 /\ r(c).stale = (call[c].stale \/ call[c].pc = "wait")
      <4>1. (call[c].stale \/ call[c].pc = "wait") \in BOOLEAN
        OBVIOUS
      <4> QED
        BY <2>1, <4>1 DEF CallRecs
    <3>2. call' = [c \in Calls |-> r(c)] /\ ~ approved'
      BY <2>2 DEF Withdraw
    <3> HIDE DEF r
    <3> QED
      BY <2>1, <3>1, <3>2
  <2>3. CASE Approve
    <3> DEFINE r(c) == [call[c] EXCEPT !.stale = FALSE]
    <3>1. ASSUME NEW c \in Calls
          PROVE  /\ r(c) \in CallRecs /\ r(c).pc = call[c].pc /\ r(c).conn = call[c].conn
                 /\ r(c).inbox = call[c].inbox /\ ~ r(c).stale
      BY <2>1 DEF CallRecs
    <3>2. call' = [c \in Calls |-> r(c)]
      BY <2>3 DEF Approve
    <3> HIDE DEF r
    <3> QED
      BY <3>1, <3>2
  <2> QED
    BY <2>2, <2>3
<1>3. TypeOK'
  BY <1>1, <1>2 DEF IInv, TypeOK, slot
<1>4. /\ (\A g \in Guards : GuardShape(guard[g], conn[guard[g].conn]))' /\ HolderShape' /\ BacklogShape'
      /\ (\A k \in Conns : ConnShape(conn[k], idle = k))'
  BY <1>1 DEF IInv, HolderShape, Held, BacklogShape, slot
<1>5. ASSUME NEW c \in Calls PROVE PlaceShape(call'[c]) /\ InboxShape(c)'
  <2>1. PlaceShape(call[c]) /\ InboxShape(c)
    BY DEF IInv
  <2> QED
    BY <1>1, <1>2, <2>1 DEF PlaceShape, InboxShape
<1> QED
  BY <1>1, <1>2, <1>3, <1>4, <1>5 DEF IInv

LEMMA RestartKeeps ==
    ASSUME SandboxAssumption, IInv, Restart
    PROVE  IInv'
<1>1. /\ UNCHANGED <<guard, honest, approved>> /\ upsets' \in 0 .. MaxUpsets
      /\ current' = None /\ idle' = None /\ backlog' = <<>> /\ usable' = FALSE
      /\ conn' = [k \in Conns |-> Refused(conn[k])] /\ call' = [c \in Calls |-> Quiet]
  BY UpsetType DEF Restart, IInv
<1>2. ASSUME NEW k \in Conns
      PROVE  /\ Refused(conn[k]) \in ConnRecs /\ Refused(conn[k]).at = "gone"
             /\ Refused(conn[k]).att = None /\ Refused(conn[k]).open = conn[k].open
             /\ Refused(conn[k]).ran = conn[k].ran /\ \A x : ~ In(x, Refused(conn[k]).up)
             /\ k # None
  <2>1. conn[k] \in ConnRecs /\ k # None
    BY DEF IInv, TypeOK, SandboxAssumption
  <2>2. Refused(conn[k]) \in ConnRecs /\ Refused(conn[k]).up = <<>>
    BY <2>1, NoFrame DEF Refused, ConnRecs
  <2> QED
    BY <2>1, <2>2, NoFrame DEF Refused, ConnRecs
<1>3. /\ conn' \in [Conns -> ConnRecs] /\ \A k \in Conns : conn'[k] = Refused(conn[k])
      /\ call' \in [Calls -> CallRecs] /\ \A c \in Calls : call'[c] = Quiet /\ c # None
  BY <1>1, <1>2, QuietType DEF SandboxAssumption
<1>4. TypeOK'
  <2>1. \A k \in Conns : conn'[k].at \in {"hello", "serving", "drain"} <=> current' = k
    BY <1>1, <1>2, <1>3
  <2>2. \A k \in Conns, c \in Calls : conn'[k].att = c <=> call'[c].conn = k
    BY <1>2, <1>3, QuietType
  <2>3. current' \in Ids /\ idle' \in Ids /\ backlog' \in Seq(Conns)
    BY <1>1 DEF Ids
  <2> QED
    BY <1>1, <1>3, <2>1, <2>2, <2>3 DEF IInv, TypeOK
<1>5. (\A g \in Guards : GuardShape(guard[g], conn[guard[g].conn]))' /\ HolderShape'
  <2>1. OwnSide
    BY <1>1, <1>2, <1>3 DEF OwnSide
  <2> QED
    BY <2>1, GuardsStay
<1>6. \A k \in Conns : ConnShape(conn'[k], idle' = k)
  BY <1>1, <1>2, <1>3 DEF ConnShape
<1>7. BacklogShape' /\ \A c \in Calls : PlaceShape(call'[c]) /\ InboxShape(c)' /\ ~ call'[c].stale
  BY <1>1, <1>3, QuietType DEF BacklogShape, InboxShape
<1> QED
  BY <1>1, <1>4, <1>5, <1>6, <1>7 DEF IInv

-----------------------------------------------------------------------------
(* The theorems.                                                           *)

LEMMA StepKeeps ==
    ASSUME SandboxAssumption, IInv, [SandboxNext]_sandboxVars
    PROVE  IInv'
<1>1. ASSUME NEW g \in Guards, Guard(g) \/ Speak(g) \/ ScriptEnds(g) \/ Die(g)
      PROVE  IInv'
  BY <1>1, DialKeeps, TakeJobKeeps, RedialKeeps, AbortedKeeps, KillAllKeeps, CloseKeeps, SpeakKeeps,
     ScriptEndsKeeps, DieKeeps DEF Guard, CleanUp
<1>2. CASE Serve
  BY <1>2, AcceptKeeps, ReadHelloKeeps, HelloFailsKeeps, ReadFrameKeeps, DrainKeeps DEF Serve
<1>3. ASSUME NEW c \in Calls,
             CallStep(c) \/ Admit(c) \/ Refuse(c) \/ ToolReturns(c) \/ Wall(c) \/ Cancelled(c)
      PROVE  IInv'
  BY <1>3, CallKeeps
<1>4. CASE Withdraw \/ Approve \/ Restart
  BY <1>4, ApprovalKeeps, RestartKeeps
<1>5. CASE UNCHANGED sandboxVars
  BY <1>5 DEF sandboxVars, slot, IInv, TypeOK, HolderShape, Held, BacklogShape, InboxShape
<1> QED
  BY <1>1, <1>2, <1>3, <1>4, <1>5 DEF SandboxNext

(* IInv holds in every state (mediator/sandbox.go accept, serve, acquire,  *)
(* run; guard/guard.go), whatever the interleaving of guards, connections, *)
(* requests, deaths of containers and restarts of the mediator.            *)
THEOREM Inductive == SandboxSpec => []IInv
<1>1. SandboxInit => IInv
  BY Starts, SandboxAssumption
<1>2. IInv /\ [SandboxNext]_sandboxVars => IInv'
  BY StepKeeps, SandboxAssumption
<1> QED
  BY <1>1, <1>2, PTL DEF SandboxSpec

(* The records keep their shape, only the current connection is served,    *)
(* and a connection is attached to a run exactly while the run has it      *)
(* (sandbox.go current, attach and detach).                                *)
THEOREM TypeCorrect == SandboxSpec => []TypeOK
<1>1. IInv => TypeOK
  BY DEF IInv
<1> QED
  BY <1>1, Inductive, PTL

(* Two scripts never live at the same time: a script was started from a    *)
(* job, so its connection had been taken from the idle place, and is then  *)
(* the current one until the guard has hung up.                            *)
THEOREM OneScriptAtATime == SandboxSpec => []OneScript
<1>1. ASSUME IInv PROVE OneScript
  <2>1. ASSUME NEW g \in Guards, Watched(g)
        PROVE  guard[g].conn # None /\ guard[g].conn = current
    <3>1. guard[g].conn # None /\ guard[g].conn \in Conns
      BY <1>1, <2>1 DEF Watched, Live, IInv, GuardShape, TypeOK, GuardRecs, Ids
    <3>2. conn[guard[g].conn].ran # None
      BY <1>1, <2>1 DEF Watched, Live, IInv, GuardShape
    <3>3. conn[guard[g].conn].at \notin {"queued", "hello", "gone"}
      BY <1>1, <2>1, <3>1, <3>2 DEF Watched, IInv, ConnShape
    <3>4. conn[guard[g].conn].at \in {"serving", "drain"}
      BY <1>1, <3>1, <3>3 DEF IInv, TypeOK, ConnRecs
    <3> QED
      BY <1>1, <3>1, <3>4 DEF IInv, TypeOK
  <2> QED
    BY <1>1, <2>1 DEF OneScript, IInv, HolderShape
<1> QED
  BY <1>1, Inductive, PTL

(* "ok" and "error" are said of a request only when its own script has     *)
(* ended so: the end it reads was sent on the connection that carried its  *)
(* job (sandbox.go deliver, run.go handle).                                *)
THEOREM EndsAreOwn == SandboxSpec => []OwnEnd
<1>1. IInv => OwnEnd
  BY DEF IInv, OwnEnd
<1> QED
  BY <1>1, Inductive, PTL

(* A script is never started for a request whose approval went while it    *)
(* waited in acquire: the approval is read again with the instance in hand *)
(* (run.go callTool after acquire).                                        *)
THEOREM NoStartWithdrawn == SandboxSpec => []NoWithdrawnStart
<1>1. IInv => NoWithdrawnStart
  BY DEF IInv, PlaceShape, NoWithdrawnStart
<1> QED
  BY <1>1, Inductive, PTL

(* Both: a request is served by a script that is its own and approved.     *)
THEOREM ServedByTheirOwn == SandboxSpec => []RequestsAreOwn
BY EndsAreOwn, NoStartWithdrawn, PTL DEF RequestsAreOwn
=============================================================================
