-------------------------- MODULE ToolBatch_proofs --------------------------
(***************************************************************************)
(* Proofs about ToolBatch for any number of calls, tools and hooks.        *)
(*                                                                         *)
(* The inductive invariant is TypeOK, BatchShape, PendingExact and         *)
(* OneResultPerCall together.  Each operator that finishes a step          *)
(* (Finalize, Wait, RunInvoke and the gates built from them) preserves it  *)
(* from any context in which the call it finishes is open and off the      *)
(* untouched part of the dispatch loop (Ctx); an action then only has to   *)
(* establish that context.  On top of it come the pins of removed tools    *)
(* (PinsExact, node by node in Pins) and, for cancels from the event loop, *)
(* how far a cancel has come (CancelShape).                                *)
(***************************************************************************)
EXTENDS ToolBatch, FiniteSetTheorems, SequenceTheorems, TLAPS

IInv == TypeOK /\ BatchShape /\ PendingExact /\ OneResultPerCall

\* The set of open calls is finite and loses exactly the call that finishes.
LEMMA OpenFinite == IsFiniteSet(Open) /\ Cardinality(Open) \in Nat
<1>1. IsFiniteSet(Calls)
  BY NAssumption, FS_Interval DEF Calls
<1>2. IsFiniteSet(Open)
  BY <1>1, FS_Subset DEF Open
<1> QED BY <1>2, FS_CardinalityType

\* When a call leaves Open and no other changes sides, the count drops by one.
LEMMA OpenLoses ==
    ASSUME NEW c \in Open, Open' = Open \ {c}
    PROVE  /\ Cardinality(Open') = Cardinality(Open) - 1
           /\ Cardinality(Open) > 0
<1>1. Cardinality(Open) # 0
  BY OpenFinite, FS_EmptySet
<1> QED BY <1>1, OpenFinite, FS_RemoveElement

\* A zero count means that every call is done.
LEMMA OpenZero ==
    ASSUME Cardinality(Open) = 0
    PROVE  \A c \in Calls : stage[c] = "done"
  BY OpenFinite, FS_EmptySet DEF Open

-----------------------------------------------------------------------------
(* The operators that finish a step.                                       *)

\* Replacing the stack by stk keeps its frames, and moves a dispatch loop past
\* call c and past no other.
SameFrames(c, stk) ==
    /\ stk \in Seq(Frames)
    /\ Len(stk) = Len(stack)
    /\ \A k \in 1 .. Len(stk) : stk[k].fn = stack[k].fn
    /\ stk # <<>> /\ stk[1].fn = "dispatch" =>
         /\ ~(stk[1].i <= c)
         /\ \A d \in Calls : d # c => (stk[1].i <= d <=> stack[1].i <= d)

\* The part of TypeOK that the operators ending a step determine, and the rest.
ProgressType ==
    /\ nodeSt \in [Nodes -> {"none", "live", "zombie", "freed"}]
    /\ inflight \in [Nodes -> Int]
    /\ bst \in {"none", "active", "detached", "freed"}
    /\ stack \in Seq(Frames)
    /\ pending \in Nat
    /\ toolsDone \in Nat
    /\ stage \in [Calls -> Stages]
    /\ outcome \in [Calls -> {"none", "ok", "failed", "timedout"}]
    /\ answers \in [Calls -> Nat]
    /\ timer \in [Calls -> BOOLEAN]

RestType ==
    /\ hooks \in Seq(HookIds)
    /\ rem \in [Nodes -> {"no", "allow", "deny"}]
    /\ alive \in BOOLEAN
    /\ cancelled \in BOOLEAN
    /\ batches \in Nat
    /\ denials \in Nat
    /\ def \in [Calls -> Nodes \cup {NoNode}]
    /\ gate \in [Calls -> {"none", "live", "orphan"}]
    /\ gateNext \in [Calls -> Nat \ {0}]
    /\ forceAsk \in [Calls -> BOOLEAN]
    /\ timedOut \in [Calls -> BOOLEAN]
    /\ abandoned \in [Calls -> BOOLEAN]

\* TypeOK is exactly these two parts.
LEMMA TypeSplit == TypeOK <=> ProgressType /\ RestType
  BY DEF TypeOK, ProgressType, RestType

\* The same after a step.
LEMMA TypeSplitPrime == TypeOK' <=> ProgressType' /\ RestType'
  BY DEF TypeOK, ProgressType, RestType

\* What every step that ends with call c owes: the other calls' gates and the
\* agent stay, and the variables outside `progress' keep their types.
Elsewhere(c) ==
    /\ RestType'
    /\ alive' = alive
    /\ \A d \in Calls : d # c => gate'[d] = gate[d]

\* The context in which an attached call is moved on or finished.
Ctx(c, stk) ==
    /\ bst = "active"
    /\ c \in Open
    /\ SameFrames(c, stk)
    /\ Elsewhere(c)

\* Releasing a pin keeps the registry well typed.
LEMMA UnpinType ==
    ASSUME ProgressType, NEW n \in Nodes \cup {NoNode}, Unpin(n)
    PROVE  /\ nodeSt' \in [Nodes -> {"none", "live", "zombie", "freed"}]
           /\ inflight' \in [Nodes -> Int]
<1>1. CASE n = NoNode
  BY <1>1 DEF Unpin, ProgressType
<1>2. CASE n # NoNode
  <2>1. inflight' = [inflight EXCEPT ![n] = inflight[n] - 1]
    BY <1>2 DEF Unpin
  <2>2. \E x \in {"none", "live", "zombie", "freed"} :
            nodeSt' = [nodeSt EXCEPT ![n] = x]
    BY <1>2 DEF Unpin, ProgressType
  <2> QED BY <2>1, <2>2, <1>2 DEF ProgressType
<1> QED BY <1>1, <1>2

\* The stacks an operator ending a step leaves behind.
Ends(c, stk) == {stk, Append(stk, Frame("invoke", c))}

\* Such a stack has its dispatch loop at the bottom, no detach loop, and the
\* loop has still to reach the untouched calls other than c.
LEMMA StackKeeps ==
    ASSUME IInv, NEW c, NEW stk, Ctx(c, stk), NEW new \in Ends(c, stk)
    PROVE  /\ new \in Seq(Frames)
           /\ \A k \in DOMAIN new : new[k].fn = "dispatch" => k = 1
           /\ \A k \in DOMAIN new : new[k].fn # "detach"
           /\ \A d \in Calls :
                (new # <<>> /\ new[1].fn = "dispatch" /\ new[1].i <= d)
                  <=> (d # c /\ stage[d] = "new")
<1> DEFINE f == Frame("invoke", c)
<1>1. c \in Calls /\ f \in Frames /\ f.fn = "invoke"
  BY NAssumption DEF Ctx, Open, Frame, Frames, Calls
<1>2. /\ stk \in Seq(Frames) /\ stack \in Seq(Frames)
      /\ Len(stk) = Len(stack) /\ Len(stk) \in Nat
      /\ DOMAIN stk = 1 .. Len(stk) /\ DOMAIN stack = 1 .. Len(stk)
  BY TypeSplit DEF IInv, ProgressType, Ctx, SameFrames
<1>3. \A k \in 1 .. Len(stk) : /\ stk[k].fn = "dispatch" => k = 1
                               /\ stk[k].fn # "detach"
  BY <1>2 DEF IInv, BatchShape, Ctx, SameFrames
<1>4. ASSUME NEW d \in Calls
      PROVE  (stk # <<>> /\ stk[1].fn = "dispatch" /\ stk[1].i <= d)
               <=> (d # c /\ stage[d] = "new")
  <2>1. stk # <<>> <=> stack # <<>>
    BY <1>2
  <2>2. stk # <<>> => 1 \in 1 .. Len(stk)
    BY <1>2
  <2>3. stk # <<>> => stk[1].fn = stack[1].fn
    BY <2>2 DEF Ctx, SameFrames
  <2>4. CASE d = c
    BY <2>4 DEF Ctx, SameFrames
  <2>5. CASE d # c
    <3>1. stk # <<>> /\ stk[1].fn = "dispatch" =>
            (stk[1].i <= d <=> stack[1].i <= d)
      BY <2>5 DEF Ctx, SameFrames
    <3> QED BY <2>1, <2>3, <2>5, <3>1 DEF IInv, BatchShape, Ctx
  <2> QED BY <2>4, <2>5
<1>5. CASE new = stk
  BY <1>2, <1>3, <1>4, <1>5
<1>6. CASE new = Append(stk, f)
  <2>1. /\ new \in Seq(Frames) /\ new # <<>>
        /\ DOMAIN new = 1 .. Len(stk) + 1
        /\ \A k \in 1 .. Len(stk) : new[k] = stk[k]
        /\ new[Len(stk) + 1] = f
    BY <1>1, <1>2, <1>6
  <2>2. \A k \in DOMAIN new : /\ new[k].fn = "dispatch" => k = 1
                              /\ new[k].fn # "detach"
    BY <1>1, <1>2, <1>3, <2>1
  <2>3. CASE stk = <<>>
    <3>1. Len(stk) = 0 /\ new[1].fn = "invoke"
      BY <2>1, <2>3, <1>1
    <3> QED BY <2>1, <2>2, <2>3, <3>1, <1>4
  <2>4. CASE stk # <<>>
    <3>1. new[1] = stk[1]
      BY <2>1, <2>4, <1>2
    <3> QED BY <2>1, <2>2, <2>4, <3>1, <1>4
  <2> QED BY <2>3, <2>4
<1> QED BY <1>5, <1>6 DEF Ends

\* A step that ends with call c in a stage it may be in keeps the shape of an
\* attached batch.
LEMMA ShapeKeeps ==
    ASSUME IInv, NEW c, NEW stk, Ctx(c, stk), stack' \in Ends(c, stk),
           bst' = "active",
           stage'[c] # "new",
           gate'[c] = "live" <=> stage'[c] = "gate",
           timer'[c] => stage'[c] = "running",
           \A d \in Calls : d # c => stage'[d] = stage[d] /\ timer'[d] = timer[d]
    PROVE  BatchShape'
<1>1. c \in Calls /\ alive' /\ \A d \in Calls : d # c => gate'[d] = gate[d]
  BY DEF IInv, BatchShape, Ctx, Open, Elsewhere
<1>2. ASSUME NEW d \in Calls
      PROVE  /\ gate'[d] = "live" <=> stage'[d] = "gate"
             /\ timer'[d] => stage'[d] = "running"
  BY <1>1 DEF IInv, BatchShape
<1>3. ASSUME NEW d \in Calls
      PROVE  stage'[d] = "new" <=> (d # c /\ stage[d] = "new")
  BY <1>1
<1>4. /\ \A k \in DOMAIN stack' : stack'[k].fn = "dispatch" => k = 1
      /\ \A k \in DOMAIN stack' : stack'[k].fn # "detach"
      /\ \A d \in Calls :
           (stack' # <<>> /\ stack'[1].fn = "dispatch" /\ stack'[1].i <= d)
             <=> (d # c /\ stage[d] = "new")
  BY StackKeeps
<1> QED BY <1>1, <1>2, <1>3, <1>4 DEF BatchShape

\* inv_finalize of an attached call preserves the invariant.
LEMMA FinalizeKeeps ==
    ASSUME IInv, NEW c, NEW stk, NEW out \in {"failed", "ok", "timedout"},
           Ctx(c, stk), Finalize(c, stk, out), gate'[c] # "live"
    PROVE  IInv'
<1> USE TypeSplit DEF IInv
<1>1. c \in Calls /\ stage[c] # "done" /\ answers[c] = 0
  BY DEF Ctx, Open, OneResultPerCall
<1>2. /\ stage' = [stage EXCEPT ![c] = "done"]
      /\ timer' = [timer EXCEPT ![c] = FALSE]
      /\ outcome' = [outcome EXCEPT ![c] = out]
      /\ answers' = [answers EXCEPT ![c] = @ + 1]
      /\ Unpin(def[c])
      /\ stack' = stk
      /\ Settle(Dec(pending))
  BY DEF Finalize, Ctx
<1>3. /\ stage'[c] = "done" /\ answers'[c] = 1 /\ timer'[c] = FALSE
      /\ \A d \in Calls : d # c => /\ stage'[d] = stage[d]
                                   /\ answers'[d] = answers[d]
                                   /\ timer'[d] = timer[d]
  BY <1>1, <1>2 DEF ProgressType
<1>5. Open' = Open \ {c}
  BY <1>3, <1>1 DEF Open
<1>6. pending = Cardinality(Open) + Len(stack) /\ Len(stack) \in Nat
  BY DEF PendingExact, Ctx, ProgressType
<1>x. /\ Cardinality(Open') = Cardinality(Open) - 1
      /\ Cardinality(Open) > 0 /\ Cardinality(Open) \in Nat
  BY <1>5, OpenLoses, OpenFinite DEF Ctx
<1>y. pending' = Dec(pending) /\ Len(stk) = Len(stack)
  BY <1>2 DEF Settle, Ctx, SameFrames
<1>7. /\ pending' = Cardinality(Open') + Len(stk)
      /\ pending' \in Nat
  BY <1>x, <1>y, <1>6 DEF Dec
<1>a. bst' \in {"active", "freed"} /\ toolsDone' \in Nat
  BY <1>2 DEF Settle, Ctx, ProgressType
<1>d. def[c] \in Nodes \cup {NoNode}
  BY <1>1 DEF RestType
<1>b. ProgressType'
  BY <1>d, <1>1, <1>2, <1>7, <1>a, UnpinType DEF ProgressType, Ctx, SameFrames, Stages
<1>c. TypeOK'
  BY <1>b, TypeSplitPrime DEF Ctx, Elsewhere
<1>8. CASE pending' = 0
  <2>1. bst' = "freed" /\ toolsDone' = 1
    BY <1>2, <1>8 DEF Settle, Ctx, OneResultPerCall
  <2>2. Len(stk) = 0 /\ Cardinality(Open') = 0
    BY <1>7, <1>8, <1>6, <1>x, <1>y
  <2>3. stk = <<>>
    BY <2>2 DEF Ctx, SameFrames
  <2>4. \A d \in Calls : stage'[d] = "done"
    <3>1. Open' = {}
      BY <2>2, <1>5, OpenFinite, FS_RemoveElement, FS_EmptySet
    <3> QED BY <3>1 DEF Open
  <2>6. BatchShape'
    <3>1. \A d \in Calls : gate'[d] # "live" /\ ~timer'[d]
      BY <2>4, <1>1, <1>3 DEF BatchShape, Ctx, Elsewhere
    <3> QED BY <1>2, <2>1, <2>3, <2>4, <3>1 DEF BatchShape
  <2>7. PendingExact'
    BY <2>1 DEF PendingExact
  <2>8. OneResultPerCall'
    BY <1>1, <1>3, <2>1, <2>4 DEF OneResultPerCall, Ctx, Elsewhere
  <2> QED BY <1>c, <2>6, <2>7, <2>8
<1>9. CASE pending' # 0
  <2>1. bst' = "active" /\ toolsDone' = toolsDone
    BY <1>2, <1>9 DEF Settle, Ctx
  <2>3. BatchShape'
    BY <1>1, <1>2, <1>3, <2>1, ShapeKeeps DEF Ends
  <2>4. PendingExact'
    BY <1>7, <1>2, <2>1 DEF PendingExact
  <2>5. OneResultPerCall'
    BY <1>1, <1>3, <2>1 DEF OneResultPerCall, Ctx, Elsewhere
  <2> QED BY <1>c, <2>3, <2>4, <2>5
<1> QED BY <1>8, <1>9

\* A call that starts to wait (for tokens, a hook or the user) stays open.
LEMMA WaitKeeps ==
    ASSUME IInv, NEW c, NEW stk, NEW st \in {"rl", "gate", "perm"},
           Ctx(c, stk), Wait(c, stk, st), ~timer[c],
           gate'[c] = "live" <=> st = "gate"
    PROVE  IInv'
<1> USE TypeSplit DEF IInv
<1>1. c \in Calls /\ stage[c] # "done"
  BY DEF Ctx, Open
<1>2. /\ stage'[c] = st
      /\ \A d \in Calls : d # c => stage'[d] = stage[d]
      /\ UNCHANGED <<timer, outcome, answers, nodeSt, inflight, pending, bst,
                     toolsDone>>
      /\ stack' = stk
  BY <1>1 DEF Wait, ProgressType
<1>3. Open' = Open
  BY <1>1, <1>2 DEF Open
<1>4. ProgressType'
  BY <1>1 DEF Wait, ProgressType, Ctx, SameFrames, Stages
<1>5. BatchShape'
  BY <1>1, <1>2, ShapeKeeps DEF Ends, Ctx
<1>6. PendingExact'
  BY <1>2, <1>3 DEF PendingExact, Ctx, SameFrames
<1>7. OneResultPerCall'
  BY <1>1, <1>2 DEF OneResultPerCall, Ctx, Elsewhere
<1> QED BY <1>4, <1>5, <1>6, <1>7, TypeSplitPrime DEF Ctx, Elsewhere

\* run_invoke takes one hold for the frame it pushes.
LEMMA RunInvokeKeeps ==
    ASSUME IInv, NEW c, NEW stk, Ctx(c, stk), RunInvoke(c, stk),
           gate'[c] # "live"
    PROVE  IInv'
<1> USE TypeSplit DEF IInv
<1>1. c \in Calls /\ stage[c] # "done"
  BY DEF Ctx, Open
<1>2. PICK armed \in BOOLEAN : timer' = [timer EXCEPT ![c] = armed]
  BY DEF RunInvoke
<1>3. /\ stage'[c] = "running"
      /\ \A d \in Calls : d # c => stage'[d] = stage[d] /\ timer'[d] = timer[d]
      /\ UNCHANGED <<outcome, answers, nodeSt, inflight, bst, toolsDone>>
      /\ stack' \in Ends(c, stk)
      /\ pending' = pending + 1
  BY <1>1, <1>2 DEF RunInvoke, ProgressType, Ends
<1>4. Open' = Open
  BY <1>1, <1>3 DEF Open
<1>5. stack' \in Seq(Frames) /\ Len(stack') = Len(stack) + 1
  <2>1. stack' \in Seq(Frames)
    BY <1>3, StackKeeps
  <2>2. Len(Append(stk, Frame("invoke", c))) = Len(stk) + 1
    BY DEF Ctx, SameFrames
  <2> QED BY <2>1, <2>2 DEF RunInvoke, Ctx, SameFrames
<1>6. ProgressType'
  BY <1>1, <1>2, <1>5 DEF RunInvoke, ProgressType, Stages
<1>7. BatchShape'
  BY <1>1, <1>3, ShapeKeeps DEF Ctx
<1>8. PendingExact'
  <2>1. /\ pending = Cardinality(Open) + Len(stack)
        /\ Cardinality(Open) \in Nat /\ Len(stack) \in Nat
    BY OpenFinite DEF PendingExact, Ctx, ProgressType
  <2>2. pending' = Cardinality(Open') + Len(stack')
    BY <2>1, <1>3, <1>4, <1>5
  <2> QED BY <2>2, <1>3 DEF PendingExact, Ctx
<1>9. OneResultPerCall'
  BY <1>1, <1>3 DEF OneResultPerCall, Ctx, Elsewhere
<1> QED BY <1>6, <1>7, <1>8, <1>9, TypeSplitPrime DEF Ctx, Elsewhere

\* The permission gate ends in one of the three.
LEMMA PermissionGateKeeps ==
    ASSUME IInv, NEW c, NEW stk, NEW ask, Ctx(c, stk), ~timer[c],
           PermissionGate(c, stk, ask), gate'[c] = "none"
    PROVE  IInv'
<1>1. CASE RunInvoke(c, stk)
  BY <1>1, RunInvokeKeeps
<1>2. CASE Report(c, stk, "failed")
  BY <1>2, FinalizeKeeps DEF Report
<1>3. CASE Wait(c, stk, "perm")
  BY <1>3, WaitKeeps
<1> QED BY <1>1, <1>2, <1>3 DEF PermissionGate

\* So does the hook chain.
LEMMA GateRunKeeps ==
    ASSUME IInv, NEW c, NEW stk, NEW ask, Ctx(c, stk), ~timer[c],
           GateRun(c, stk, ask)
    PROVE  IInv'
<1>0. c \in Calls /\ gate \in [Calls -> {"none", "live", "orphan"}]
  BY TypeSplit DEF Ctx, Open, IInv, RestType
<1>1. CASE gateNext[c] > Len(hooks)
  BY <1>0, <1>1, PermissionGateKeeps DEF GateRun
<1>2. CASE ~(gateNext[c] > Len(hooks))
  <2>1. CASE Wait(c, stk, "gate") /\ gate' = [gate EXCEPT ![c] = "live"]
    BY <1>0, <2>1, WaitKeeps
  <2>2. CASE Report(c, stk, "failed") /\ gate' = [gate EXCEPT ![c] = "none"]
    BY <1>0, <2>2, FinalizeKeeps DEF Report
  <2> QED BY <1>2, <2>1, <2>2 DEF GateRun
<1> QED BY <1>1, <1>2

\* The hook chain changes only the call's own gate fields.
LEMMA GateRunElsewhere ==
    ASSUME TypeOK, NEW c \in Calls, NEW stk, NEW ask \in BOOLEAN,
           GateRun(c, stk, ask),
           UNCHANGED <<agentVars, rem, def, timedOut, abandoned>>
    PROVE  Elsewhere(c)
<1> USE TypeSplit DEF RestType
<1>1. /\ forceAsk' \in [Calls -> BOOLEAN]
      /\ gateNext' \in [Calls -> Nat \ {0}]
  <2>1. \E k \in Nat \ {0} : gateNext' = [gateNext EXCEPT ![c] = k]
    BY DEF GateRun
  <2>2. forceAsk' = [forceAsk EXCEPT ![c] = ask]
    BY DEF GateRun
  <2> QED BY <2>1, <2>2
<1>2. \E x \in {"none", "live"} : gate' = [gate EXCEPT ![c] = x]
  BY DEF GateRun
<1>3. /\ gate' \in [Calls -> {"none", "live", "orphan"}]
      /\ \A d \in Calls : d # c => gate'[d] = gate[d]
  BY <1>2
<1> QED BY <1>1, <1>3 DEF Elsewhere, agentVars

\* An unchanged stack is a stack after a step, for a call already dispatched.
LEMMA SameStack ==
    ASSUME IInv, bst = "active", NEW c \in Calls, stage[c] # "new"
    PROVE  SameFrames(c, stack)
  BY TypeSplit DEF IInv, ProgressType, BatchShape, SameFrames

\* Overwriting the last element of a sequence.
LEMMA SetLast ==
    ASSUME NEW S, NEW s \in Seq(S), s # <<>>, NEW e \in S
    PROVE  /\ [s EXCEPT ![Len(s)] = e] \in Seq(S)
           /\ Len([s EXCEPT ![Len(s)] = e]) = Len(s)
           /\ [s EXCEPT ![Len(s)] = e][Len(s)] = e
           /\ \A k \in 1 .. Len(s) :
                 k # Len(s) => [s EXCEPT ![Len(s)] = e][k] = s[k]
<1>1. Len(s) \in 1 .. Len(s)
  BY EmptySeq, LenProperties
<1> QED BY <1>1, ExceptSeq

\* The loop on top of the stack moves on by one: a dispatch loop past its call,
\* any other loop past nothing that is untouched.
LEMMA AdvanceFrames ==
    ASSUME IInv, stack # <<>>, Top.i <= N
    PROVE  /\ Top.i \in Calls
           /\ Advance \in Seq(Frames) /\ Len(Advance) = Len(stack)
           /\ Top.fn = "dispatch" => SameFrames(Top.i, Advance)
           /\ bst = "active" /\ Top.fn # "dispatch" =>
                \A c \in Calls : stage[c] # "new" => SameFrames(c, Advance)
           /\ Len(stack) = 1 => Advance[1] = Frame(Top.fn, Top.i + 1)
           /\ \A k \in 1 .. Len(stack) : Advance[k].fn = stack[k].fn
           /\ Top.fn # "dispatch" /\ stack[1].fn = "dispatch" =>
                Advance[1] = stack[1]
<1> DEFINE g == Frame(Top.fn, Top.i + 1)
           L == Len(stack)
<1>1. /\ stack \in Seq(Frames) /\ L \in Nat \ {0}
      /\ DOMAIN stack = 1 .. L /\ Top \in Frames
  BY TypeSplit DEF IInv, ProgressType, Top
<1>2. /\ Top.i \in Calls /\ g \in Frames /\ g.fn = Top.fn /\ g.i = Top.i + 1
  BY <1>1, NAssumption DEF Frames, Frame, Calls
<1>3. /\ Advance \in Seq(Frames) /\ Len(Advance) = L
      /\ Advance[L] = g
      /\ \A k \in 1 .. L : k # L => Advance[k] = stack[k]
  <2>1. Advance = [stack EXCEPT ![L] = g]
    BY DEF Advance
  <2> HIDE DEF g
  <2> QED BY <1>1, <1>2, <2>1, SetLast
<1>4. \A k \in 1 .. L : Advance[k].fn = stack[k].fn
  BY <1>2, <1>3 DEF Top
<1>5. Top.fn = "dispatch" => SameFrames(Top.i, Advance)
  <2> HAVE Top.fn = "dispatch"
  <2>1. L = 1
    BY <1>1 DEF IInv, BatchShape, Top
  <2>2. /\ ~(Top.i + 1 <= Top.i)
        /\ \A d \in Calls : d # Top.i => (Top.i + 1 <= d <=> Top.i <= d)
    BY <1>2, NAssumption DEF Calls
  <2> QED BY <1>2, <1>3, <1>4, <2>1, <2>2 DEF SameFrames, Top
<1>6. bst = "active" /\ Top.fn # "dispatch" =>
         \A c \in Calls : stage[c] # "new" => SameFrames(c, Advance)
  <2> SUFFICES ASSUME bst = "active", Top.fn # "dispatch", NEW c \in Calls,
                      stage[c] # "new"
               PROVE  SameFrames(c, Advance)
    OBVIOUS
  <2>1. CASE L = 1
    <3>1. Advance[1].fn # "dispatch"
      BY <2>1, <1>2, <1>3
    <3> QED BY <3>1, <1>3, <1>4 DEF SameFrames
  <2>2. CASE L # 1
    <3>0. 1 \in 1 .. L
      BY <1>1
    <3>1. Advance[1] = stack[1]
      BY <3>0, <2>2, <1>3
    <3> QED BY <3>1, <1>1, <1>3, <1>4 DEF SameFrames, IInv, BatchShape
  <2> QED BY <2>1, <2>2
<1>7. L = 1 => Advance[1] = g
  BY <1>3
<1>8. Top.fn # "dispatch" /\ stack[1].fn = "dispatch" => Advance[1] = stack[1]
  <2> HAVE Top.fn # "dispatch" /\ stack[1].fn = "dispatch"
  <2>1. 1 # L /\ 1 \in 1 .. L
    BY <1>1 DEF Top
  <2> QED BY <2>1, <1>3
<1> QED BY <1>2, <1>3, <1>4, <1>5, <1>6, <1>7, <1>8

\* A frame above an attached batch is never the detach loop's, and there is
\* none above a batch that was never dispatched.
LEMMA AttachedFrame ==
    ASSUME IInv, stack # <<>>, Top.fn # "detach"
    PROVE  bst = "active"
  BY TypeSplit DEF IInv, ProgressType, BatchShape, Top

\* A call that waits, and one that runs on an idle loop with its clock on,
\* belongs to an attached batch.
LEMMA WaitingAttached ==
    ASSUME IInv, NEW c \in Calls, UserCode,
           stage[c] \in {"rl", "gate", "perm"} \/ timer[c]
    PROVE  bst = "active"
<1>1. bst \in {"active", "detached"}
  BY DEF IInv, BatchShape
<1>2. ASSUME bst = "detached" PROVE FALSE
  <2>1. stack = <<>>
    BY <1>2, TypeSplit DEF IInv, BatchShape, UserCode, Running, Top, ProgressType
  <2> QED BY <1>2, <2>1 DEF IInv, BatchShape
<1> QED BY <1>1, <1>2

\* Giving up a hold: the batch is finalized when it was the last.
LEMMA ReleaseKeeps ==
    ASSUME IInv, stack # <<>>, Top.fn # "detach", Release,
           Top.fn = "dispatch" => ~(Top.i <= N)
    PROVE  IInv'
<1> USE TypeSplit DEF IInv
<1> DEFINE L == Len(stack)
<1>1. bst = "active"
  BY AttachedFrame
<1>2. /\ stack \in Seq(Frames) /\ L \in Nat \ {0}
      /\ DOMAIN stack = 1 .. L
  BY DEF ProgressType
<1>3. /\ stack' \in Seq(Frames) /\ Len(stack') = L - 1
      /\ DOMAIN stack' = 1 .. L - 1
      /\ \A k \in 1 .. L - 1 : stack'[k] = stack[k]
  BY <1>2 DEF Release, Pop
<1>4. Open' = Open
  BY DEF Release, Open
<1>5. pending = Cardinality(Open) + L /\ Cardinality(Open) \in Nat
  BY <1>1, OpenFinite DEF PendingExact
<1>6. pending' = Cardinality(Open') + (L - 1) /\ pending' \in Nat
  BY <1>2, <1>4, <1>5 DEF Release, Settle, Dec
<1>7. ProgressType' /\ RestType'
  <2>1. bst' \in {"none", "active", "detached", "freed"} /\ toolsDone' \in Nat
    BY DEF Release, Settle, ProgressType
  <2> QED BY <2>1, <1>3, <1>6
          DEF Release, ProgressType, RestType, agentVars, gateVars
<1>8. \A c \in Calls : stage[c] = "new" =>
         /\ stack' # <<>> /\ stack'[1] = stack[1]
         /\ stack[1].fn = "dispatch" /\ stack[1].i <= c
  <2> SUFFICES ASSUME NEW c \in Calls, stage[c] = "new"
               PROVE  /\ stack' # <<>> /\ stack'[1] = stack[1]
                      /\ stack[1].fn = "dispatch" /\ stack[1].i <= c
    OBVIOUS
  <2>1. stack[1].fn = "dispatch" /\ stack[1].i <= c
    BY <1>1 DEF BatchShape
  <2>2. L # 1
    <3> SUFFICES ASSUME L = 1 PROVE FALSE
      OBVIOUS
    <3>1. Top = stack[1]
      BY DEF Top
    <3>2. stack[1] \in Frames
      BY <1>2
    <3>3. ~(stack[1].i <= N) /\ stack[1].i \in 1 .. N + 1 /\ c \in 1 .. N
      BY <3>1, <3>2, <2>1 DEF Frames, Calls
    <3> QED BY <3>3, <2>1, NAssumption
  <2> QED BY <2>1, <2>2, <1>2, <1>3
<1>9. CASE pending' = 0
  <2>1. L = 1 /\ Cardinality(Open) = 0 /\ stack' = <<>>
    BY <1>9, <1>2, <1>3, <1>4, <1>5, <1>6
  <2>2. \A c \in Calls : stage[c] = "done"
    BY <2>1, OpenZero
  <2>3. bst' = "freed" /\ toolsDone' = 1
    BY <1>1, <1>9 DEF Release, Settle, OneResultPerCall
  <2>4. BatchShape'
    BY <2>1, <2>2, <2>3 DEF BatchShape, Release, gateVars
  <2>5. OneResultPerCall'
    BY <1>1, <2>2, <2>3 DEF OneResultPerCall, Release
  <2>6. PendingExact'
    BY <2>3 DEF PendingExact
  <2> QED BY <1>7, <2>4, <2>5, <2>6, TypeSplitPrime
<1>10. CASE pending' # 0
  <2>1. bst' = "active" /\ toolsDone' = toolsDone
    BY <1>1, <1>10 DEF Release, Settle
  <2>2. UNCHANGED <<alive, stage, timer, gate, answers>>
    BY DEF Release, agentVars, gateVars
  <2>3. ASSUME NEW c \in Calls
        PROVE  stage'[c] = "new" <=> /\ stack' # <<>>
                                     /\ stack'[1].fn = "dispatch"
                                     /\ stack'[1].i <= c
    <3>1. stack' # <<>> => stack'[1] = stack[1]
      BY <1>2, <1>3
    <3> QED BY <1>1, <1>8, <2>2, <3>1 DEF BatchShape
  <2>4. \A k \in DOMAIN stack' : /\ stack'[k].fn = "dispatch" => k = 1
                                 /\ stack'[k].fn # "detach"
    BY <1>1, <1>2, <1>3 DEF BatchShape
  <2>5. BatchShape'
    BY <1>1, <2>1, <2>2, <2>3, <2>4 DEF BatchShape
  <2>6. OneResultPerCall'
    BY <1>1, <2>1, <2>2 DEF OneResultPerCall
  <2>7. PendingExact'
    BY <2>1, <1>6, <1>3 DEF PendingExact
  <2> QED BY <1>7, <2>5, <2>6, <2>7, TypeSplitPrime
<1> QED BY <1>9, <1>10

\* inv_finalize of a detached call.
LEMMA FinalizeDetachedKeeps ==
    ASSUME IInv, bst = "detached", NEW c \in Calls, NEW stk, NEW out,
           stage[c] = "running", Finalize(c, stk, out), Elsewhere(c),
           gate'[c] # "live",
           stk \in Seq(Frames), Len(stk) = Len(stack),
           stk # <<>> => /\ stk[1].fn = "detach"
                         /\ \A d \in Calls : d # c /\ stk[1].i > d =>
                                               stack[1].i > d
    PROVE  IInv'
<1> USE TypeSplit DEF IInv
<1>1. /\ stage' = [stage EXCEPT ![c] = "done"]
      /\ timer' = [timer EXCEPT ![c] = FALSE]
      /\ UNCHANGED <<outcome, answers, nodeSt, inflight>>
      /\ stack' = stk
      /\ Settle(Dec(pending))
  BY DEF Finalize
<1>2. /\ stage'[c] = "done" /\ timer'[c] = FALSE
      /\ \A d \in Calls : d # c => stage'[d] = stage[d] /\ timer'[d] = timer[d]
  BY <1>1 DEF ProgressType
<1>3. /\ c \in Open /\ Open' = Open \ {c}
  BY <1>2 DEF Open
<1>4. /\ pending = Cardinality(Open) /\ Cardinality(Open) \in Nat
      /\ Cardinality(Open) > 0
      /\ Cardinality(Open') = Cardinality(Open) - 1
  BY <1>3, OpenLoses, OpenFinite DEF PendingExact
<1>5. pending' = Cardinality(Open') /\ pending' \in Nat
  BY <1>1, <1>4 DEF Settle, Dec
<1>6. /\ bst' \in {"detached", "freed"} /\ (bst' = "freed" <=> pending' = 0)
      /\ toolsDone' = toolsDone
  BY <1>1, <1>5 DEF Settle
<1>7. ProgressType'
  BY <1>1, <1>5, <1>6 DEF ProgressType, Stages
<1>8. /\ ~alive /\ ~alive' /\ toolsDone' = 0
      /\ stk # <<>> => Len(stk) = 1 /\ stack # <<>>
  BY <1>6 DEF BatchShape, Elsewhere, OneResultPerCall, ProgressType
<1>9. ASSUME NEW d \in Calls
      PROVE  /\ gate'[d] = "live" <=> stage'[d] = "gate"
             /\ timer'[d] => stage'[d] = "running"
             /\ stage'[d] # "new"
             /\ (stk # <<>> => stk[1].i > d) =>
                   stage'[d] \in {"running", "done"} /\ ~timer'[d]
  <2>1. CASE d = c
    BY <2>1, <1>2
  <2>2. CASE d # c
    <3>1. stk = <<>> => stack = <<>>
      BY DEF ProgressType
    <3> QED BY <2>2, <1>2, <3>1 DEF BatchShape, Elsewhere
  <2> QED BY <2>1, <2>2
<1>10. bst' = "freed" => \A d \in Calls : stage'[d] = "done"
  <2> HAVE bst' = "freed"
  <2>1. Open' = {}
    BY <1>3, <1>5, <1>6, OpenFinite, FS_RemoveElement, FS_EmptySet
  <2> QED BY <2>1 DEF Open
<1>11. DOMAIN stk = 1 .. Len(stk) /\ \A k \in DOMAIN stk : stk[k].fn = "detach"
  <2>1. DOMAIN stk = 1 .. Len(stk) /\ Len(stk) \in Nat
    OBVIOUS
  <2>2. CASE stk = <<>>
    BY <2>2
  <2>3. CASE stk # <<>>
    <3>1. DOMAIN stk = 1 .. 1 /\ stk[1].fn = "detach"
      BY <1>8, <2>1, <2>3
    <3>2. \A k \in 1 .. 1 : k = 1
      OBVIOUS
    <3> QED BY <2>1, <3>1, <3>2
  <2> QED BY <2>1, <2>2, <2>3
<1>12. BatchShape'
  BY <1>1, <1>6, <1>8, <1>9, <1>10, <1>11 DEF BatchShape
<1>13. PendingExact'
  BY <1>5, <1>6 DEF PendingExact
<1>14. OneResultPerCall'
  BY <1>1, <1>2, <1>6, <1>8 DEF OneResultPerCall
<1> QED BY <1>7, <1>12, <1>13, <1>14, TypeSplitPrime DEF Elsewhere

-----------------------------------------------------------------------------
(* The actions.                                                            *)

\* A fresh agent, with no batch, satisfies the invariant.
LEMMA InitEstablishes == ASSUME Init PROVE IInv
<1> USE NAssumption, NamesAssumption, HooksAssumption
<1>1. ProgressType
  <2>1. <<>> \in Seq(Frames)
    BY EmptySeq
  <2> QED BY <2>1 DEF Init, ProgressType, Stages
<1>2. RestType
  <2>1. /\ def \in [Calls -> Nodes \cup {NoNode}]
        /\ rem \in [Nodes -> {"no", "allow", "deny"}]
    BY DEF Init
  <2>2. /\ gate \in [Calls -> {"none", "live", "orphan"}]
        /\ gateNext \in [Calls -> Nat \ {0}]
        /\ forceAsk \in [Calls -> BOOLEAN]
        /\ timedOut \in [Calls -> BOOLEAN]
        /\ abandoned \in [Calls -> BOOLEAN]
    BY DEF Init
  <2>3. /\ hooks \in Seq(HookIds) /\ alive \in BOOLEAN /\ cancelled \in BOOLEAN
        /\ batches \in Nat /\ denials \in Nat
    BY DEF Init
  <2> QED BY <2>1, <2>2, <2>3 DEF RestType
<1>3. BatchShape
  BY DEF Init, BatchShape
<1>4. PendingExact /\ OneResultPerCall
  BY DEF Init, PendingExact, OneResultPerCall
<1> QED BY <1>1, <1>2, <1>3, <1>4, TypeSplit DEF IInv

\* The registry operations leave the batch alone.
LEMMA RegistryKeeps == ASSUME IInv, RegistryNext PROVE IInv'
<1> USE TypeSplit DEF IInv
<1>1. ASSUME UNCHANGED <<alive, batchVars>>, ProgressType', RestType' PROVE IInv'
  <2>1. Open' = Open
    BY <1>1 DEF batchVars, Open
  <2>2. BatchShape' /\ PendingExact' /\ OneResultPerCall'
    BY <1>1, <2>1
       DEF batchVars, BatchShape, PendingExact, OneResultPerCall
  <2> QED BY <1>1, <2>2, TypeSplitPrime
<1>2. ASSUME NEW nm \in Names, ToolAdd(nm) \/ ToolRemove(nm) PROVE IInv'
  <2>1. nodeSt' \in [Nodes -> {"none", "live", "zombie", "freed"}]
    BY <1>2 DEF ToolAdd, ToolRemove, LiveNodes, ProgressType, Nodes, Gens
  <2> QED BY <1>1, <1>2, <2>1
          DEF ToolAdd, ToolRemove, ProgressType, RestType, batchVars
<1>3. ASSUME NEW h \in HookIds, HookAdd(h) PROVE IInv'
  BY <1>1, <1>3 DEF HookAdd, ProgressType, RestType, batchVars
<1>4. ASSUME NEW h \in HookIds, HookRemove(h) PROVE IInv'
  <2>1. PICK k \in DOMAIN hooks :
           hooks' = SubSeq(hooks, 1, k - 1) \o SubSeq(hooks, k + 1, Len(hooks))
    BY <1>4 DEF HookRemove
  <2>2. hooks' \in Seq(HookIds)
    BY <2>1 DEF RestType
  <2> QED BY <1>1, <1>4, <2>2
          DEF HookRemove, ProgressType, RestType, batchVars
<1> QED BY <1>2, <1>3, <1>4 DEF RegistryNext

\* A fresh batch: every call open, one hold.
LEMMA DispatchKeeps ==
    ASSUME IInv, NEW nm, Dispatch(nm) PROVE IInv'
<1> USE TypeSplit, NAssumption DEF IInv
<1> DEFINE f == Frame("dispatch", 1)
<1>1. /\ stack' = <<f>> /\ f \in Frames /\ f.fn = "dispatch" /\ f.i = 1
  BY DEF Dispatch, Frame, Frames
<1>2. /\ stack' \in Seq(Frames) /\ Len(stack') = 1 /\ stack'[1] = f
      /\ stack' # <<>> /\ DOMAIN stack' = 1 .. 1
  <2> HIDE DEF f
  <2> QED BY <1>1
<1>3. Open' = Calls /\ Cardinality(Calls) = N
  <2>1. Open' = Calls
    BY DEF Dispatch, FreshCalls, Open
  <2>2. Cardinality(Calls) = N
    BY FS_Interval DEF Calls
  <2> QED BY <2>1, <2>2
<1>4. inflight' \in [Nodes -> Int]
  <2> DEFINE pins(n) == Cardinality({c \in Calls : FindTool(nm[c]) = n})
  <2>1. \A n \in Nodes : pins(n) \in Nat
    <3>1. IsFiniteSet(Calls)
      BY FS_Interval DEF Calls
    <3> QED BY <3>1, FS_Subset, FS_CardinalityType
  <2>2. inflight' = [n \in Nodes |-> inflight[n] + pins(n)]
    BY DEF Dispatch
  <2>3. inflight \in [Nodes -> Int]
    BY DEF ProgressType
  <2> HIDE DEF pins
  <2> QED BY <2>1, <2>2, <2>3
<1>5. def' \in [Calls -> Nodes \cup {NoNode}]
  <2>1. ASSUME NEW x PROVE FindTool(x) \in Nodes \cup {NoNode}
    <3>1. LiveNodes(x) # {} =>
            (CHOOSE n \in LiveNodes(x) : TRUE) \in LiveNodes(x)
      OBVIOUS
    <3>2. LiveNodes(x) \subseteq Nodes
      BY DEF LiveNodes
    <3> QED BY <3>1, <3>2 DEF FindTool
  <2> QED BY <2>1 DEF Dispatch
<1>6. /\ pending' = N + 1 /\ bst' = "active" /\ toolsDone' = 0 /\ alive'
      /\ UNCHANGED <<hooks, nodeSt, rem, alive>>
      /\ batches' = batches + 1 /\ denials' = 0 /\ cancelled' = FALSE
      /\ FreshCalls
  BY DEF Dispatch
<1>7. ProgressType'
  BY <1>2, <1>4, <1>6 DEF FreshCalls, ProgressType, Stages
<1>8. RestType'
  <2>2. /\ gate' \in [Calls -> {"none", "live", "orphan"}]
        /\ gateNext' \in [Calls -> Nat \ {0}]
        /\ forceAsk' \in [Calls -> BOOLEAN]
        /\ timedOut' \in [Calls -> BOOLEAN]
        /\ abandoned' \in [Calls -> BOOLEAN]
    BY <1>6 DEF FreshCalls
  <2>3. RestType
    OBVIOUS
  <2>4. /\ hooks' \in Seq(HookIds) /\ batches' \in Nat /\ denials' \in Nat
        /\ rem' \in [Nodes -> {"no", "allow", "deny"}]
    BY <1>6, <2>3 DEF RestType
  <2>5. alive' \in BOOLEAN /\ cancelled' \in BOOLEAN
    BY <1>6, <2>3 DEF RestType
  <2> QED BY <1>5, <2>2, <2>4, <2>5 DEF RestType
<1>9. BatchShape'
  <2>1. \A c \in Calls : /\ stage'[c] = "new" /\ gate'[c] = "none"
                         /\ timer'[c] = FALSE /\ 1 <= c
    BY <1>6 DEF FreshCalls, Calls
  <2>2. /\ stack'[1].fn = "dispatch" /\ stack'[1].i = 1
        /\ \A k \in DOMAIN stack' : k = 1
    BY <1>1, <1>2
  <2> QED BY <2>1, <2>2, <1>2, <1>6 DEF BatchShape
<1>10. PendingExact'
  BY <1>2, <1>3, <1>6 DEF PendingExact
<1>11. OneResultPerCall'
  BY <1>6 DEF OneResultPerCall, FreshCalls
<1> QED BY <1>7, <1>8, <1>9, <1>10, <1>11, TypeSplitPrime

\* Dispatching one call, from the loop or from its rate-limit timer.
LEMMA DispatchOneKeeps ==
    ASSUME IInv, bst = "active", NEW c \in Calls, NEW stk,
           stage[c] \in {"new", "rl"}, SameFrames(c, stk), DispatchOne(c, stk),
           UNCHANGED <<agentVars, rem, def, timedOut, abandoned>>
    PROVE  IInv'
<1>1. /\ c \in Open /\ gate[c] # "live" /\ ~timer[c]
  BY DEF IInv, BatchShape, Open
<1>2. CASE def[c] = NoNode
  <2>1. Report(c, stk, "failed") /\ UNCHANGED gateVars
    BY <1>2 DEF DispatchOne
  <2>2. Ctx(c, stk)
    BY <1>1, <2>1, TypeSplit
       DEF IInv, RestType, Ctx, Elsewhere, gateVars, agentVars
  <2> QED BY <1>1, <2>1, <2>2, FinalizeKeeps DEF Report, gateVars
<1>3. CASE def[c] # NoNode
  <2>1. GateRun(c, stk, forceAsk[c])
    BY <1>3 DEF DispatchOne
  <2>2. forceAsk[c] \in BOOLEAN
    BY TypeSplit DEF IInv, RestType
  <2>3. Ctx(c, stk)
    BY <1>1, <2>1, <2>2, GateRunElsewhere DEF Ctx, IInv
  <2> QED BY <1>1, <2>1, <2>3, GateRunKeeps
<1> QED BY <1>2, <1>3

\* One turn of the loop of clm_tools_dispatch keeps the invariant.
LEMMA DispatchStepKeeps == ASSUME IInv, DispatchStep PROVE IInv'
<1>1. /\ stack # <<>> /\ Top.fn = "dispatch" /\ Top.i <= N
      /\ UNCHANGED <<agentVars, rem, def, timedOut, abandoned>>
  BY DEF DispatchStep, Running
<1>2. bst = "active" /\ Top.i \in Calls /\ SameFrames(Top.i, Advance)
  BY <1>1, AttachedFrame, AdvanceFrames
<1>3. stage[Top.i] = "new"
  <2>1. Len(stack) \in 1 .. Len(stack) /\ DOMAIN stack = 1 .. Len(stack)
    BY <1>1, TypeSplit DEF IInv, ProgressType
  <2>2. Top = stack[1] /\ stack[1].i <= Top.i
    BY <1>1, <1>2, <2>1 DEF IInv, BatchShape, Top, Calls
  <2> QED BY <1>1, <1>2, <2>2 DEF IInv, BatchShape
<1>4. CASE DispatchOne(Top.i, Advance)
  BY <1>1, <1>2, <1>3, <1>4, DispatchOneKeeps
<1>5. CASE Wait(Top.i, Advance, "rl") /\ UNCHANGED gateVars
  <2>1. Ctx(Top.i, Advance)
    BY <1>1, <1>2, <1>3, <1>5, TypeSplit
       DEF IInv, RestType, Ctx, Elsewhere, gateVars, agentVars, Open
  <2>2. gate[Top.i] # "live" /\ ~timer[Top.i] /\ gate' = gate
    BY <1>2, <1>3, <1>5 DEF IInv, BatchShape, gateVars
  <2> QED BY <2>1, <2>2, <1>5, WaitKeeps
<1> QED BY <1>4, <1>5 DEF DispatchStep

\* on_rl_timer keeps the invariant.
LEMMA RlTimerKeeps == ASSUME IInv, NEW c \in Calls, RlTimer(c) PROVE IInv'
<1>1. stack = <<>> /\ stage[c] = "rl" /\ DispatchOne(c, stack)
  BY DEF RlTimer
<1>2. bst = "active"
  BY <1>1, WaitingAttached DEF UserCode, Running
<1> QED BY <1>1, <1>2, SameStack, DispatchOneKeeps DEF RlTimer

\* A hook's answer moves its call on, or finishes it.
LEMMA GateRespondKeeps ==
    ASSUME IInv, NEW c \in Calls, NEW v, GateRespond(c, v) PROVE IInv'
<1> USE TypeSplit DEF IInv
<1>1. /\ stage[c] = "gate" /\ ~timer[c] /\ UserCode
      /\ UNCHANGED <<hooks, alive, batches, cancelled, rem, def, timedOut,
                     abandoned>>
  BY DEF GateRespond, BatchShape
<1>2. bst = "active" /\ c \in Open /\ SameFrames(c, stack)
  BY <1>1, WaitingAttached, SameStack DEF Open
<1>3. CASE /\ GateRun(c, stack, forceAsk[c] \/ v = "ask")
           /\ UNCHANGED denials
  <2>1. (forceAsk[c] \/ v = "ask") \in BOOLEAN
    BY DEF RestType
  <2>2. Elsewhere(c)
    BY <1>1, <1>3, <2>1, GateRunElsewhere DEF agentVars
  <2> QED BY <1>1, <1>2, <1>3, <2>2, GateRunKeeps DEF Ctx
<1>4. CASE /\ Report(c, stack, "failed")
           /\ gate' = [gate EXCEPT ![c] = "none"]
           /\ denials' = IF v = "deny" THEN denials + 1 ELSE denials
           /\ UNCHANGED <<gateNext, forceAsk>>
  <2>1. Elsewhere(c) /\ gate'[c] = "none"
    <3>1. denials' \in Nat
      BY <1>4 DEF RestType
    <3>2. /\ gate' \in [Calls -> {"none", "live", "orphan"}]
          /\ gate'[c] = "none"
          /\ \A d \in Calls : d # c => gate'[d] = gate[d]
      BY <1>4 DEF RestType
    <3> QED BY <1>1, <1>4, <3>1, <3>2 DEF RestType, Elsewhere
  <2> QED BY <1>2, <1>4, <2>1, FinalizeKeeps DEF Report, Ctx
<1> QED BY <1>3, <1>4 DEF GateRespond

\* An answer to a gate whose call is gone disturbs no call.
LEMMA GateRespondLateKeeps ==
    ASSUME IInv, NEW c \in Calls, GateRespondLate(c) PROVE IInv'
<1> USE TypeSplit DEF IInv
<1>1. /\ gate' = [gate EXCEPT ![c] = "none"] /\ gate[c] = "orphan"
      /\ UNCHANGED <<progress, agentVars, gateNext, forceAsk, rem, def,
                     timedOut, abandoned>>
  BY DEF GateRespondLate
<1>2. ProgressType' /\ RestType'
  BY <1>1 DEF progress, agentVars, ProgressType, RestType
<1>3. Open' = Open
  BY <1>1 DEF progress, Open
<1>4. \A d \in Calls : gate'[d] = "live" <=> gate[d] = "live"
  BY <1>1 DEF RestType
<1>5. BatchShape' /\ PendingExact' /\ OneResultPerCall'
  BY <1>1, <1>3, <1>4
     DEF progress, agentVars, BatchShape, PendingExact, OneResultPerCall
<1> QED BY <1>2, <1>5, TypeSplitPrime

\* The user's answer starts the tool or fails the call.
LEMMA PermissionRespondKeeps ==
    ASSUME IInv, NEW c \in Calls, NEW d, PermissionRespond(c, d) PROVE IInv'
<1> USE TypeSplit DEF IInv
<1>1. /\ stage[c] = "perm" /\ alive
      /\ UNCHANGED <<agentVars, gateVars, def, timedOut, abandoned>>
      /\ Remember(NameOf(c), d)
  BY DEF PermissionRespond
<1>2. bst = "active" /\ c \in Open /\ gate[c] # "live"
  BY <1>1 DEF BatchShape, Open
<1>3. rem' \in [Nodes -> {"no", "allow", "deny"}]
  BY <1>1 DEF Remember, RestType
<1>4. Ctx(c, stack) /\ gate'[c] # "live"
  <2>1. SameFrames(c, stack)
    BY <1>1, <1>2, SameStack
  <2> QED BY <1>1, <1>2, <1>3, <2>1
          DEF Ctx, Elsewhere, RestType, agentVars, gateVars
<1>5. CASE RunInvoke(c, stack)
  BY <1>4, <1>5, RunInvokeKeeps
<1>6. CASE Report(c, stack, "failed")
  BY <1>4, <1>6, FinalizeKeeps DEF Report
<1> QED BY <1>5, <1>6 DEF PermissionRespond

\* A tool reports its call, whether or not the agent still exists.
LEMMA ToolReportKeeps ==
    ASSUME IInv, NEW c \in Calls, NEW out \in {"ok", "failed"},
           ToolReport(c, out)
    PROVE  IInv'
<1> USE TypeSplit DEF IInv
<1>1. /\ stage[c] = "running" /\ UserCode /\ Report(c, stack, out)
      /\ UNCHANGED <<agentVars, gateVars, rem, def, timedOut, abandoned>>
  BY DEF ToolReport
<1>2. Elsewhere(c) /\ gate'[c] # "live"
  BY <1>1 DEF Elsewhere, RestType, agentVars, gateVars, BatchShape
<1>3. bst \in {"active", "detached"}
  BY <1>1 DEF BatchShape
<1>4. CASE bst = "active"
  <2>1. Ctx(c, stack)
    BY <1>1, <1>2, <1>4, SameStack DEF Ctx, Open
  <2> QED BY <1>1, <1>2, <2>1, FinalizeKeeps DEF Report
<1>5. CASE bst = "detached"
  <2>1. stack = <<>> /\ stack \in Seq(Frames)
    BY <1>1, <1>5 DEF BatchShape, UserCode, Running, Top, ProgressType
  <2> QED BY <1>1, <1>2, <1>5, <2>1, FinalizeDetachedKeeps DEF Report
<1> QED BY <1>3, <1>4, <1>5

\* What an abandoned tool says is ignored.
LEMMA ToolReportLateKeeps ==
    ASSUME IInv, NEW c \in Calls, ToolReportLate(c) PROVE IInv'
<1> USE TypeSplit DEF IInv
<1>1. /\ abandoned' = [abandoned EXCEPT ![c] = FALSE]
      /\ UNCHANGED <<progress, agentVars, gateVars, rem, def, timedOut>>
  BY DEF ToolReportLate
<1>2. ProgressType' /\ RestType'
  BY <1>1 DEF progress, agentVars, gateVars, ProgressType, RestType
<1>3. Open' = Open
  BY <1>1 DEF progress, Open
<1>5. BatchShape' /\ PendingExact' /\ OneResultPerCall'
  BY <1>1, <1>3 DEF progress, agentVars, gateVars, BatchShape, PendingExact,
                    OneResultPerCall
<1> QED BY <1>2, <1>5, TypeSplitPrime

\* A timeout stops the clock, and finishes the call or leaves it to its tool.
LEMMA OnTimeoutKeeps ==
    ASSUME IInv, NEW c \in Calls, OnTimeout(c) PROVE IInv'
<1> USE TypeSplit DEF IInv
<1>1. /\ stack = <<>> /\ timer[c]
      /\ timedOut' = [timedOut EXCEPT ![c] = TRUE]
      /\ abandoned' = [abandoned EXCEPT ![c] = ~Armed(c)]
      /\ UNCHANGED <<agentVars, gateVars, rem, def>>
  BY DEF OnTimeout
<1>2. /\ bst = "active" /\ stage[c] = "running" /\ c \in Open
      /\ gate[c] # "live"
  BY <1>1, WaitingAttached DEF BatchShape, Open, UserCode, Running
<1>3. /\ timedOut' \in [Calls -> BOOLEAN]
      /\ abandoned' \in [Calls -> BOOLEAN]
  <2>1. (~Armed(c)) \in BOOLEAN
    BY DEF Armed
  <2> QED BY <1>1, <2>1 DEF RestType
<1>4. Elsewhere(c) /\ gate' = gate
  BY <1>1, <1>3 DEF Elsewhere, RestType, agentVars, gateVars
<1>5. CASE Finalize(c, stack, "timedout")
  <2>1. Ctx(c, stack)
    BY <1>2, <1>4, SameStack DEF Ctx
  <2> QED BY <1>2, <1>4, <1>5, <2>1, FinalizeKeeps
<1>6. CASE /\ timer' = [timer EXCEPT ![c] = FALSE]
           /\ UNCHANGED <<stage, outcome, answers, nodeSt, inflight, pending,
                          bst, toolsDone, stack>>
  <2>1. ProgressType'
    BY <1>6 DEF ProgressType
  <2>2. Open' = Open
    BY <1>6 DEF Open
  <2>3. \A d \in Calls : timer'[d] => timer[d]
    BY <1>6 DEF ProgressType
  <2>4. BatchShape' /\ PendingExact' /\ OneResultPerCall'
    BY <1>4, <1>6, <2>2, <2>3
       DEF BatchShape, PendingExact, OneResultPerCall, Elsewhere
  <2> QED BY <1>4, <2>1, <2>4, TypeSplitPrime DEF Elsewhere
<1> QED BY <1>5, <1>6 DEF OnTimeout

\* clm_tools_cancel takes one hold for its loop.
LEMMA CancelKeeps == ASSUME IInv, Cancel PROVE IInv'
<1> USE TypeSplit DEF IInv
<1> DEFINE f == Frame("cancel", 1)
           L == Len(stack)
<1>1. f \in Frames /\ f.fn = "cancel"
  BY NAssumption DEF Frame, Frames
<1>2. /\ bst = "active" /\ cancelled' = TRUE /\ pending' = pending + 1
      /\ stack' = Append(stack, f)
      /\ UNCHANGED <<hooks, alive, batches, denials, gateVars, stage, timer,
                     outcome, answers, nodeSt, inflight, bst, toolsDone, rem,
                     def, timedOut, abandoned>>
  BY DEF Cancel
<1>3. stack \in Seq(Frames) /\ L \in Nat /\ DOMAIN stack = 1 .. L
  BY DEF ProgressType
<1>4. /\ stack' \in Seq(Frames) /\ Len(stack') = L + 1 /\ stack' # <<>>
      /\ DOMAIN stack' = 1 .. L + 1 /\ stack'[L + 1] = f
      /\ \A k \in 1 .. L : stack'[k] = stack[k]
  <2> HIDE DEF f
  <2> QED BY <1>1, <1>2, <1>3
<1>5. Open' = Open
  BY <1>2 DEF Open
<1>6. ProgressType' /\ RestType'
  BY <1>2, <1>4 DEF ProgressType, RestType, gateVars
<1>7. \A k \in DOMAIN stack' : /\ stack'[k].fn = "dispatch" => k = 1
                               /\ stack'[k].fn # "detach"
  BY <1>1, <1>2, <1>3, <1>4 DEF BatchShape
<1>8. ASSUME NEW c \in Calls
      PROVE  stage'[c] = "new" <=> /\ stack' # <<>>
                                   /\ stack'[1].fn = "dispatch"
                                   /\ stack'[1].i <= c
  <2>1. CASE stack = <<>>
    <3>1. stack'[1].fn = "cancel"
      BY <2>1, <1>1, <1>4
    <3> QED BY <2>1, <3>1, <1>2 DEF BatchShape
  <2>2. CASE stack # <<>>
    <3>1. stack'[1] = stack[1]
      BY <2>2, <1>3, <1>4
    <3> QED BY <2>2, <3>1, <1>2, <1>4 DEF BatchShape
  <2> QED BY <2>1, <2>2
<1>9. BatchShape'
  BY <1>2, <1>7, <1>8 DEF BatchShape, gateVars
<1>10. PendingExact'
  <2>1. pending = Cardinality(Open) + L /\ Cardinality(Open) \in Nat
    BY <1>2, OpenFinite DEF PendingExact
  <2>2. pending' = Cardinality(Open') + Len(stack')
    BY <2>1, <1>2, <1>3, <1>4, <1>5
  <2> QED BY <2>2, <1>2 DEF PendingExact
<1>11. OneResultPerCall'
  BY <1>2 DEF OneResultPerCall
<1> QED BY <1>6, <1>9, <1>10, <1>11, TypeSplitPrime

\* The cancel loop retires a call, or only moves on.
LEMMA CancelStepKeeps == ASSUME IInv, CancelStep PROVE IInv'
<1> USE TypeSplit DEF IInv
<1> DEFINE c == Top.i
<1>1. /\ stack # <<>> /\ Top.fn = "cancel" /\ c <= N
      /\ gate' = [gate EXCEPT ![c] =
                    IF gate[c] = "live" THEN "orphan" ELSE gate[c]]
      /\ UNCHANGED <<agentVars, gateNext, forceAsk, rem, def, timedOut,
                     abandoned>>
  BY DEF CancelStep, Running
<1>2. /\ bst = "active" /\ c \in Calls
      /\ Advance \in Seq(Frames) /\ Len(Advance) = Len(stack)
      /\ \A d \in Calls : stage[d] # "new" => SameFrames(d, Advance)
      /\ \A k \in 1 .. Len(stack) : Advance[k].fn = stack[k].fn
      /\ stack[1].fn = "dispatch" => Advance[1] = stack[1]
  BY <1>1, AttachedFrame, AdvanceFrames
<1> HIDE DEF c
<1>3. /\ gate' \in [Calls -> {"none", "live", "orphan"}] /\ gate'[c] # "live"
      /\ \A d \in Calls : d # c => gate'[d] = gate[d]
  <2>1. \E x \in {"none", "orphan"} : gate' = [gate EXCEPT ![c] = x]
    BY <1>1, <1>2 DEF RestType
  <2> QED BY <2>1, <1>2 DEF RestType
<1>4. Elsewhere(c)
  BY <1>1, <1>3 DEF Elsewhere, RestType, agentVars
<1>5. CASE /\ stage[c] \in {"rl", "gate", "running"}
           /\ Report(c, Advance, "failed")
  <2>1. Ctx(c, Advance)
    BY <1>2, <1>4, <1>5 DEF Ctx, Open
  <2> QED BY <1>3, <1>5, <2>1, FinalizeKeeps DEF Report
<1>6. CASE stage[c] # "gate" /\ Wait(c, Advance, stage[c])
  <2>1. /\ stack' = Advance
        /\ UNCHANGED <<stage, timer, outcome, answers, nodeSt, inflight,
                       pending, bst, toolsDone>>
    BY <1>6, <1>2 DEF Wait, ProgressType
  <2>2. Open' = Open
    BY <2>1 DEF Open
  <2>3. ProgressType'
    BY <1>2, <2>1 DEF ProgressType
  <2>4. DOMAIN stack' = DOMAIN stack /\ stack' # <<>> /\ 1 \in 1 .. Len(stack)
        /\ DOMAIN stack = 1 .. Len(stack)
    BY <1>1, <1>2, <2>1 DEF ProgressType
  <2>5. ASSUME NEW d \in Calls
        PROVE  stage'[d] = "new" <=> /\ stack' # <<>>
                                     /\ stack'[1].fn = "dispatch"
                                     /\ stack'[1].i <= d
    <3>1. CASE stack[1].fn = "dispatch"
      BY <3>1, <1>1, <1>2, <2>1, <2>4 DEF BatchShape
    <3>2. CASE stack[1].fn # "dispatch"
      BY <3>2, <1>2, <2>1, <2>4 DEF BatchShape
    <3> QED BY <3>1, <3>2
  <2>6. \A k \in DOMAIN stack' : /\ stack'[k].fn = "dispatch" => k = 1
                                 /\ stack'[k].fn # "detach"
    BY <1>2, <2>1, <2>4 DEF BatchShape
  <2>7. \A d \in Calls : gate'[d] = "live" <=> stage'[d] = "gate"
    BY <1>3, <1>6, <2>1 DEF BatchShape
  <2>8. BatchShape'
    BY <1>2, <1>4, <2>1, <2>5, <2>6, <2>7 DEF BatchShape, Elsewhere
  <2>9. PendingExact' /\ OneResultPerCall'
    BY <1>2, <1>4, <2>1, <2>2 DEF PendingExact, OneResultPerCall, Elsewhere
  <2> QED BY <1>4, <2>3, <2>8, <2>9, TypeSplitPrime DEF Elsewhere
<1> QED BY <1>5, <1>6 DEF CancelStep, Armed, c

\* clm_agent_free detaches an active batch, which has no holds then.
LEMMA AgentFreeKeeps == ASSUME IInv, AgentFree PROVE IInv'
<1> USE TypeSplit DEF IInv
<1>1. /\ alive /\ alive' = FALSE /\ hooks' = <<>> /\ stack = <<>>
      /\ UNCHANGED <<batches, cancelled, denials, gateVars, stage, timer,
                     outcome, answers, inflight, pending, toolsDone, rem, def,
                     timedOut, abandoned>>
  BY DEF AgentFree
<1>2. Open' = Open
  BY <1>1 DEF Open
<1>3. RestType'
  <2>1. hooks' \in Seq(HookIds)
    BY <1>1
  <2> QED BY <1>1, <2>1 DEF RestType, gateVars
<1>4. CASE bst = "active"
  <2> DEFINE f == Frame("detach", 1)
  <2>1. /\ bst' = "detached" /\ stack' = <<f>> /\ UNCHANGED nodeSt
        /\ f \in Frames /\ f.fn = "detach" /\ f.i = 1
    BY <1>4, NAssumption DEF AgentFree, Frame, Frames
  <2>2. /\ stack' \in Seq(Frames) /\ Len(stack') = 1 /\ stack'[1] = f
        /\ stack' # <<>> /\ DOMAIN stack' = 1 .. 1
    <3> HIDE DEF f
    <3> QED BY <2>1
  <2>3. ProgressType'
    BY <1>1, <2>1, <2>2 DEF ProgressType
  <2>4. \A c \in Calls : ~(stack'[1].i > c)
    BY <2>1, <2>2 DEF Calls
  <2>5. \A k \in DOMAIN stack' : stack'[k].fn = "detach"
    BY <2>1, <2>2
  <2>6. BatchShape'
    BY <1>1, <1>4, <2>1, <2>2, <2>4, <2>5 DEF BatchShape, gateVars
  <2>7. PendingExact'
    <3>1. pending = Cardinality(Open) + 0 /\ Cardinality(Open) \in Nat
      BY <1>1, <1>4, OpenFinite, EmptySeq DEF PendingExact
    <3> QED BY <3>1, <1>1, <1>2, <2>1 DEF PendingExact
  <2>8. OneResultPerCall'
    BY <1>1, <1>4, <2>1 DEF OneResultPerCall
  <2> QED BY <1>3, <2>3, <2>6, <2>7, <2>8, TypeSplitPrime
<1>5. CASE bst # "active"
  <2>1. /\ FreeRegistry /\ UNCHANGED <<bst, stack>>
    BY <1>5 DEF AgentFree
  <2>2. bst \in {"none", "freed"}
    BY <1>1, <1>5 DEF BatchShape, ProgressType
  <2>3. nodeSt' \in [Nodes -> {"none", "live", "zombie", "freed"}]
    BY <2>1 DEF FreeRegistry, ProgressType
  <2>4. ProgressType'
    BY <1>1, <2>1, <2>3 DEF ProgressType
  <2>5. BatchShape' /\ PendingExact' /\ OneResultPerCall'
    BY <1>1, <1>2, <2>1, <2>2
       DEF BatchShape, PendingExact, OneResultPerCall, gateVars
  <2> QED BY <1>3, <2>4, <2>5, TypeSplitPrime
<1> QED BY <1>4, <1>5

\* The detach loop over a batch: one frame, at the call it looks at.
LEMMA DetachFrame ==
    ASSUME IInv, Running("detach"), bst = "detached"
    PROVE  /\ Len(stack) = 1 /\ Top = stack[1] /\ stack \in Seq(Frames)
           /\ stack[1].fn = "detach" /\ stack[1].i \in 1 .. N + 1
<1>1. stack \in Seq(Frames) /\ stack # <<>> /\ Top.fn = "detach"
  BY TypeSplit DEF IInv, ProgressType, Running
<1>2. Len(stack) = 1 /\ Top = stack[1]
  BY <1>1 DEF IInv, BatchShape, Top
<1>3. stack[1] \in Frames
  BY <1>1, <1>2
<1> QED BY <1>1, <1>2, <1>3 DEF Frames

\* The detach loop retires a parked call, and takes a running one's clock.
LEMMA DetachStepKeeps == ASSUME IInv, DetachStep PROVE IInv'
<1> USE TypeSplit DEF IInv
<1> DEFINE c == Top.i
<1>1. /\ Running("detach") /\ bst = "detached" /\ c <= N
      /\ gate' = [gate EXCEPT ![c] =
                    IF gate[c] = "live" THEN "orphan" ELSE gate[c]]
      /\ UNCHANGED <<agentVars, gateNext, forceAsk, rem, def, timedOut,
                     abandoned>>
  BY DEF DetachStep
<1>2. /\ Len(stack) = 1 /\ Top = stack[1] /\ stack # <<>>
      /\ stack[1].fn = "detach" /\ c \in Calls
      /\ Advance \in Seq(Frames) /\ Len(Advance) = 1
      /\ Advance[1].fn = "detach" /\ Advance[1].i = c + 1
  <2>1. /\ Len(stack) = 1 /\ Top = stack[1] /\ stack # <<>>
        /\ stack[1].fn = "detach"
    BY <1>1, DetachFrame DEF Running
  <2>2. /\ c \in Calls /\ Advance \in Seq(Frames) /\ Len(Advance) = Len(stack)
        /\ Advance[1] = Frame(Top.fn, Top.i + 1)
    BY <1>1, <2>1, AdvanceFrames
  <2>3. Advance[1].fn = Top.fn /\ Advance[1].i = Top.i + 1
    BY <2>2 DEF Frame
  <2> QED BY <2>1, <2>2, <2>3
<1>3. \A d \in Calls : /\ c + 1 > d /\ d # c => stack[1].i > d
                       /\ ~(stack[1].i > c)
  BY <1>2, NAssumption DEF Calls
<1> HIDE DEF c
<1>4. /\ gate' \in [Calls -> {"none", "live", "orphan"}] /\ gate'[c] # "live"
      /\ \A d \in Calls : d # c => gate'[d] = gate[d]
  <2>1. \E x \in {"none", "orphan"} : gate' = [gate EXCEPT ![c] = x]
    BY <1>1, <1>2 DEF RestType
  <2> QED BY <2>1, <1>2 DEF RestType
<1>5. Elsewhere(c) /\ ~alive
  BY <1>1, <1>4 DEF Elsewhere, RestType, agentVars, BatchShape
<1>6. CASE stage[c] = "running" /\ Finalize(c, Advance, "failed")
  <2>1. \A d \in Calls : d # c /\ Advance[1].i > d => stack[1].i > d
    BY <1>2, <1>3
  <2>2. Len(Advance) = Len(stack)
    BY <1>2
  <2> QED BY <1>1, <1>2, <1>4, <1>5, <1>6, <2>1, <2>2, FinalizeDetachedKeeps
<1>7. ASSUME NEW done \in BOOLEAN,
             done => stage[c] \in {"rl", "gate", "perm"},
             ~done => stage[c] \notin {"rl", "gate", "perm"},
             stack' = Advance,
             timer' = [timer EXCEPT ![c] = FALSE],
             stage' = [stage EXCEPT ![c] = IF done THEN "done" ELSE @],
             pending' = IF done THEN Dec(pending) ELSE pending,
             UNCHANGED <<outcome, answers, nodeSt, inflight, bst, toolsDone>>
      PROVE  IInv'
  <2>1. /\ timer'[c] = FALSE /\ (done => stage'[c] = "done")
        /\ ~done => stage'[c] = stage[c]
        /\ stage'[c] \in {"running", "done"}
        /\ stage[c] = "done" => stage'[c] = "done"
        /\ \A d \in Calls : d # c => stage'[d] = stage[d] /\ timer'[d] = timer[d]
    BY <1>1, <1>2, <1>7 DEF ProgressType, Stages, BatchShape
  <2>2. pending = Cardinality(Open) /\ Cardinality(Open) \in Nat
    BY <1>1, OpenFinite DEF PendingExact
  <2>3. pending' = Cardinality(Open') /\ pending' \in Nat
    <3>1. CASE done
      <4>1. c \in Open /\ Open' = Open \ {c}
        BY <3>1, <2>1, <1>2, <1>7 DEF Open
      <4> QED BY <3>1, <4>1, <2>2, <1>7, OpenLoses DEF Dec
    <3>2. CASE ~done
      <4>1. Open' = Open
        BY <3>2, <2>1, <1>2 DEF Open
      <4> QED BY <3>2, <4>1, <2>2, <1>7
    <3> QED BY <3>1, <3>2
  <2>4. ProgressType'
    <3>1. \E x \in Stages : stage' = [stage EXCEPT ![c] = x]
      BY <1>2, <1>7 DEF ProgressType, Stages
    <3> QED BY <3>1, <1>2, <1>7, <2>3 DEF ProgressType
  <2>5. ASSUME NEW d \in Calls
        PROVE  /\ gate'[d] = "live" <=> stage'[d] = "gate"
               /\ timer'[d] => stage'[d] = "running"
               /\ stage'[d] # "new"
               /\ stack'[1].i > d =>
                     stage'[d] \in {"running", "done"} /\ ~timer'[d]
    <3>1. CASE d = c
      BY <3>1, <2>1, <1>4
    <3>2. CASE d # c
      BY <3>2, <2>1, <1>1, <1>2, <1>3, <1>4, <1>7 DEF BatchShape
    <3> QED BY <3>1, <3>2
  <2>6. stack' # <<>> /\ DOMAIN stack' = 1 .. 1 /\ \A k \in 1 .. 1 : k = 1
    BY <1>2, <1>7
  <2>7. BatchShape'
    BY <1>1, <1>2, <1>5, <1>7, <2>5, <2>6 DEF BatchShape, Elsewhere
  <2>8. PendingExact'
    BY <1>1, <1>7, <2>3 DEF PendingExact
  <2>9. OneResultPerCall'
    BY <1>1, <1>2, <1>5, <1>7, <2>1 DEF OneResultPerCall, Elsewhere
  <2> QED BY <1>5, <2>4, <2>7, <2>8, <2>9, TypeSplitPrime DEF Elsewhere
<1>8. CASE Armed(c) /\ SyncHook(c)
  BY <1>6, <1>8 DEF DetachStep, Armed, c
<1>9. CASE ~(Armed(c) /\ SyncHook(c))
  <2> DEFINE parked == stage[c] \in {"rl", "gate", "perm"}
  <2>1. /\ stack' = Advance
        /\ timer' = [timer EXCEPT ![c] = FALSE]
        /\ stage' = [stage EXCEPT ![c] = IF parked THEN "done" ELSE @]
        /\ pending' = IF parked THEN Dec(pending) ELSE pending
        /\ UNCHANGED <<outcome, answers, nodeSt, inflight, bst, toolsDone>>
    BY <1>9 DEF DetachStep, c
  <2>2. parked \in BOOLEAN
    OBVIOUS
  <2> QED BY <2>1, <2>2, <1>7
<1> QED BY <1>8, <1>9

\* At the end of the loop the batch is freed if nothing runs.
LEMMA DetachReturnKeeps == ASSUME IInv, DetachReturn PROVE IInv'
<1> USE TypeSplit DEF IInv
<1>1. /\ Running("detach") /\ bst = "detached" /\ Top.i > N
      /\ stack' = Pop /\ FreeRegistry
      /\ bst' = IF pending = 0 THEN "freed" ELSE bst
      /\ UNCHANGED <<agentVars, gateVars, stage, timer, outcome, answers,
                     inflight, pending, toolsDone, rem, def, timedOut,
                     abandoned>>
  BY DEF DetachReturn
<1>2. /\ stack' = <<>> /\ stack' \in Seq(Frames)
      /\ \A c \in Calls : stack[1].i > c
  BY <1>1, DetachFrame, NAssumption DEF Pop, Calls
<1>3. \A c \in Calls : stage[c] \in {"running", "done"} /\ ~timer[c]
  BY <1>1, <1>2 DEF BatchShape
<1>4. Open' = Open
  BY <1>1 DEF Open
<1>5. bst' = "freed" => \A c \in Calls : stage[c] = "done"
  BY <1>1, OpenZero DEF PendingExact
<1>6. ProgressType' /\ RestType'
  <2>1. nodeSt' \in [Nodes -> {"none", "live", "zombie", "freed"}]
    BY <1>1 DEF FreeRegistry, ProgressType
  <2> QED BY <1>1, <1>2, <2>1 DEF ProgressType, RestType, agentVars, gateVars
<1>7. ~alive /\ UNCHANGED <<alive, gate>> /\ bst' \in {"detached", "freed"}
  BY <1>1 DEF BatchShape, agentVars, gateVars
<1>8. BatchShape'
  BY <1>1, <1>2, <1>3, <1>5, <1>7 DEF BatchShape
<1>9. PendingExact' /\ OneResultPerCall'
  BY <1>1, <1>4, <1>7 DEF PendingExact, OneResultPerCall
<1> QED BY <1>6, <1>8, <1>9, TypeSplitPrime

\* Every step keeps the invariant.
LEMMA NextKeeps == ASSUME IInv, [Next]_vars PROVE IInv'
<1>1. CASE RegistryNext
  BY <1>1, RegistryKeeps
<1>2. ASSUME NEW nm, Dispatch(nm) PROVE IInv'
  BY <1>2, DispatchKeeps
<1>3. CASE DispatchStep
  BY <1>3, DispatchStepKeeps
<1>4. CASE DispatchReturn
  <2>1. stack # <<>> /\ Top.fn = "dispatch" /\ Top.i > N /\ Release
    BY <1>4 DEF DispatchReturn, Running
  <2>2. Top.i \in Int
    <3>1. stack \in Seq(Frames)
      BY TypeSplit DEF IInv, ProgressType
    <3>2. Top \in Frames
      BY <2>1, <3>1 DEF Top
    <3> QED BY <3>2, NAssumption DEF Frames
  <2>3. ~(Top.i <= N)
    BY <2>1, <2>2, NAssumption
  <2> QED BY <2>1, <2>3, ReleaseKeeps
<1>5. CASE InvokeReturn
  BY <1>5, ReleaseKeeps DEF InvokeReturn, Running
<1>6. CASE Cancel
  BY <1>6, CancelKeeps
<1>7. CASE CancelStep
  BY <1>7, CancelStepKeeps
<1>8. CASE CancelReturn
  BY <1>8, ReleaseKeeps DEF CancelReturn, Running
<1>9. CASE AgentFree
  BY <1>9, AgentFreeKeeps
<1>10. CASE DetachStep
  BY <1>10, DetachStepKeeps
<1>11. CASE DetachReturn
  BY <1>11, DetachReturnKeeps
<1>12. ASSUME NEW c \in Calls,
              \/ RlTimer(c) \/ OnTimeout(c) \/ GateRespondLate(c)
              \/ ToolReportLate(c)
              \/ \E v \in Verdicts : GateRespond(c, v)
              \/ \E d \in Decisions : PermissionRespond(c, d)
              \/ \E out \in {"ok", "failed"} : ToolReport(c, out)
       PROVE  IInv'
  BY <1>12, RlTimerKeeps, OnTimeoutKeeps, GateRespondLateKeeps,
     ToolReportLateKeeps, GateRespondKeeps, PermissionRespondKeeps,
     ToolReportKeeps
<1>13. CASE UNCHANGED vars
  <2>1. UNCHANGED <<hooks, alive, batches, cancelled, denials, gate, gateNext,
                    forceAsk, stage, timer, outcome, answers, nodeSt,
                    inflight, pending, bst, toolsDone, stack, rem, def,
                    timedOut, abandoned>>
    BY <1>13 DEF vars, agentVars, gateVars, progress
  <2>2. Open' = Open
    BY <2>1 DEF Open
  <2>3. ProgressType' /\ RestType'
    BY <2>1, TypeSplit DEF ProgressType, RestType, IInv
  <2>4. BatchShape' /\ PendingExact' /\ OneResultPerCall'
    BY <2>1, <2>2 DEF BatchShape, PendingExact, OneResultPerCall, IInv
  <2> QED BY <2>3, <2>4, TypeSplitPrime DEF IInv
<1> QED BY <1>1, <1>2, <1>3, <1>4, <1>5, <1>6, <1>7, <1>8, <1>9, <1>10,
           <1>11, <1>12, <1>13 DEF Next

\* The invariant holds in every reachable state.
THEOREM Invariance == Spec => []IInv
<1>1. Init => IInv
  BY InitEstablishes
<1>2. IInv /\ [Next]_vars => IInv'
  BY NextKeeps
<1> QED BY <1>1, <1>2, PTL DEF Spec

\* Every variable keeps its type; in particular batch->pending and the
\* C stack stay well formed however the callbacks re-enter the library.
THEOREM TypeCorrect == Spec => []TypeOK
<1>1. IInv => TypeOK
  BY DEF IInv
<1> QED BY <1>1, Invariance, PTL

\* batch->pending is exactly the open calls and the holds, so a test for zero
\* in tools.c is a test for "nothing will touch this batch again".
THEOREM PendingAlwaysExact == Spec => []PendingExact
<1>1. IInv => PendingExact
  BY DEF IInv
<1> QED BY <1>1, Invariance, PTL

\* No dispatch, run_invoke or clm_tools_cancel frame survives the batch it
\* still has to touch.
THEOREM HeldFramesAlwaysSafe == Spec => []HeldFramesSafe
<1>1. IInv => HeldFramesSafe
  <2> SUFFICES ASSUME IInv, bst = "freed", NEW k \in DOMAIN stack
               PROVE  stack[k].fn = "detach"
    BY DEF HeldFramesSafe
  <2>1. stack \in Seq(Frames) /\ DOMAIN stack = 1 .. Len(stack)
    BY TypeSplit DEF IInv, ProgressType
  <2>2. stack # <<>>
    BY <2>1
  <2>3. Len(stack) = 1 /\ stack[1].fn = "detach"
    BY <2>2 DEF IInv, BatchShape
  <2> QED BY <2>1, <2>3
<1> QED BY <1>1, Invariance, PTL

\* The model gets exactly one result for every call, and the agent exactly one
\* clm_agent_tools_done for every batch it still owns.
THEOREM ResultsExactlyOnce == Spec => []OneResultPerCall
<1>1. IInv => OneResultPerCall
  BY DEF IInv
<1> QED BY <1>1, Invariance, PTL

-----------------------------------------------------------------------------
(* The pins of the tool nodes.                                             *)

\* The calls of an attached batch that point at node n.
Pins(n) == IF bst = "active" THEN {c \in Calls : def[c] = n /\ c \in Open} ELSE {}

\* The inflight count and the life of a node, for the pins it has.
PinOK(n) ==
    /\ inflight[n] = Cardinality(Pins(n))
    /\ Pins(n) # {} => nodeSt[n] \in {"live", "zombie"}
    /\ nodeSt[n] = "zombie" => Pins(n) # {}

\* PinsExact is about every node alike.
LEMMA PinsSplit ==
    /\ PinsExact <=> (alive => \A n \in Nodes : PinOK(n))
    /\ PinsExact' <=> (alive' => \A n \in Nodes : PinOK(n)')
  BY DEF PinsExact, PinOK, Pins

LEMMA PinsFinite ==
    ASSUME NEW n
    PROVE  IsFiniteSet(Pins(n)) /\ Cardinality(Pins(n)) \in Nat
<1>1. IsFiniteSet(Calls)
  BY NAssumption, FS_Interval DEF Calls
<1>2. Pins(n) \subseteq Calls
  BY DEF Pins
<1> QED BY <1>1, <1>2, FS_Subset, FS_CardinalityType

\* A batch whose end the agent sees has no open call left.
LEMMA EndedEmpty ==
    ASSUME IInv', bst' = "freed", alive'
    PROVE  Open' = {}
<1>1. \A c \in Calls : answers'[c] = 1
  BY DEF IInv, OneResultPerCall
<1> QED BY <1>1 DEF IInv, OneResultPerCall, Open

\* A step that leaves nodes, calls and targets alone leaves the pins alone,
\* also when it is the last of its batch.
LEMMA SamePins ==
    ASSUME IInv, IInv', PinsExact, alive' = alive, def' = def, Open' = Open,
           bst' = bst \/ (bst = "active" /\ bst' = "freed"),
           UNCHANGED <<nodeSt, inflight>>
    PROVE  PinsExact'
<1> SUFFICES ASSUME alive, NEW n \in Nodes PROVE PinOK(n)'
  BY PinsSplit
<1>1. Pins(n)' = Pins(n)
  <2>1. CASE bst' = bst
    BY <2>1 DEF Pins
  <2>2. CASE bst = "active" /\ bst' = "freed"
    <3>1. Open' = {}
      BY <2>2, EndedEmpty
    <3> QED BY <2>2, <3>1 DEF Pins
  <2> QED BY <2>1, <2>2
<1> QED BY <1>1, PinsSplit DEF PinOK

\* The end of call c takes its pin, and nothing else.
LEMMA FinalizePins ==
    ASSUME IInv, IInv', PinsExact, bst = "active", NEW c \in Open, NEW stk, NEW out,
           Finalize(c, stk, out), alive' = alive, def' = def
    PROVE  PinsExact'
<1> SUFFICES ASSUME alive, NEW n \in Nodes PROVE PinOK(n)'
  BY PinsSplit
<1>1. c \in Calls /\ stage' = [stage EXCEPT ![c] = "done"] /\ Unpin(def[c])
  BY DEF Finalize, Open
<1>2. Open' = Open \ {c}
  BY <1>1, TypeSplit DEF Open, IInv, ProgressType
<1>3. bst' \in {"active", "freed"}
  BY DEF Finalize, Settle
<1>4. Pins(n)' = Pins(n) \ {c}
  <2>1. CASE bst' = "active"
    BY <1>2, <2>1 DEF Pins
  <2>2. CASE bst' = "freed"
    <3>1. Open' = {}
      BY <2>2, EndedEmpty
    <3> QED BY <1>2, <2>2, <3>1 DEF Pins
  <2> QED BY <1>3, <2>1, <2>2
<1>5. PinOK(n) /\ n # NoNode
  <2>1. n # NoNode
    BY NamesAssumption DEF Nodes, NoNode
  <2> QED BY <2>1, PinsSplit
<1>6. /\ nodeSt \in [Nodes -> {"none", "live", "zombie", "freed"}]
      /\ inflight \in [Nodes -> Int]
  BY TypeSplit DEF IInv, ProgressType
<1>7. CASE def[c] = n
  <2>1. c \in Pins(n)
    BY <1>1, <1>7 DEF Pins
  <2>2. /\ Cardinality(Pins(n)') = Cardinality(Pins(n)) - 1 /\ Cardinality(Pins(n)) \in Nat
    BY <1>4, <2>1, PinsFinite, FS_RemoveElement
  <2>3. /\ inflight'[n] = inflight[n] - 1
        /\ nodeSt'[n] = IF nodeSt[n] = "zombie" /\ inflight[n] = 1 THEN "freed" ELSE nodeSt[n]
    BY <1>1, <1>5, <1>6, <1>7 DEF Unpin
  <2>4. inflight[n] = Cardinality(Pins(n)) /\ nodeSt[n] \in {"live", "zombie"}
    BY <1>5, <2>1 DEF PinOK
  <2>5. Pins(n)' = {} <=> inflight[n] = 1
    <3>1. IsFiniteSet(Pins(n)')
      BY <1>4, PinsFinite, FS_Subset
    <3>2. Cardinality(Pins(n)') = 0 <=> Pins(n)' = {}
      BY <3>1, FS_EmptySet
    <3> QED BY <2>2, <2>4, <3>2
  <2> QED BY <2>2, <2>3, <2>4, <2>5 DEF PinOK
<1>8. CASE def[c] # n
  <2>1. c \notin Pins(n)
    BY <1>8 DEF Pins
  <2>2. Pins(n)' = Pins(n)
    BY <1>4, <2>1
  <2>3. inflight'[n] = inflight[n] /\ nodeSt'[n] = nodeSt[n]
    BY <1>1, <1>6, <1>8 DEF Unpin
  <2> QED BY <1>5, <2>2, <2>3 DEF PinOK
<1> QED BY <1>7, <1>8

\* How a step ends for call c: it is finished, or it goes on to a later stage.
GoesOn(c) ==
    /\ UNCHANGED <<nodeSt, inflight, bst>>
    /\ \E st \in {"rl", "gate", "perm", "running"} : stage' = [stage EXCEPT ![c] = st]

EndsStep(c, stk) ==
    \/ \E out \in {"ok", "failed", "timedout"} : Finalize(c, stk, out)
    \/ GoesOn(c)

LEMMA StepEnds ==
    ASSUME NEW c, NEW stk, NEW ask,
           PermissionGate(c, stk, ask) \/ GateRun(c, stk, ask) \/ DispatchOne(c, stk)
           \/ RunInvoke(c, stk) \/ Report(c, stk, "failed") \/ Report(c, stk, "ok")
           \/ \E st \in {"rl", "gate", "perm"} : Wait(c, stk, st)
    PROVE  EndsStep(c, stk)
<1>1. RunInvoke(c, stk) => GoesOn(c)
  BY DEF RunInvoke, GoesOn
<1>2. \A st \in {"rl", "gate", "perm"} : Wait(c, stk, st) => GoesOn(c)
  BY DEF Wait, GoesOn
<1>3. Report(c, stk, "failed") \/ Report(c, stk, "ok") => EndsStep(c, stk)
  BY DEF Report, EndsStep
<1>4. \A a : PermissionGate(c, stk, a) => EndsStep(c, stk)
  BY <1>1, <1>2, <1>3 DEF PermissionGate, EndsStep
<1>5. \A a : GateRun(c, stk, a) => EndsStep(c, stk)
  BY <1>2, <1>3, <1>4 DEF GateRun, EndsStep
<1>6. DispatchOne(c, stk) => EndsStep(c, stk)
  BY <1>3, <1>5 DEF DispatchOne
<1> QED BY <1>1, <1>2, <1>3, <1>4, <1>5, <1>6 DEF EndsStep

LEMMA EndsStepPins ==
    ASSUME IInv, IInv', PinsExact, bst = "active", NEW c \in Open, NEW stk,
           EndsStep(c, stk), alive' = alive, def' = def
    PROVE  PinsExact'
<1>1. CASE GoesOn(c)
  <2>1. Open' = Open
    BY <1>1, TypeSplit DEF GoesOn, Open, IInv, ProgressType
  <2> QED BY <1>1, <2>1, SamePins DEF GoesOn
<1>2. CASE \E out \in {"ok", "failed", "timedout"} : Finalize(c, stk, out)
  BY <1>2, FinalizePins
<1> QED BY <1>1, <1>2 DEF EndsStep

\* A tool is added under a new node, and removed for good only when unpinned.
LEMMA RegistryPins ==
    ASSUME IInv, IInv', PinsExact, RegistryNext
    PROVE  PinsExact'
<1>1. UNCHANGED <<inflight, alive, batchVars>>
  BY DEF RegistryNext, ToolAdd, ToolRemove, HookAdd, HookRemove
<1>2. Open' = Open /\ def' = def /\ bst' = bst
  BY <1>1 DEF batchVars, Open
<1>3. CASE UNCHANGED nodeSt
  BY <1>1, <1>2, <1>3, SamePins
<1>4. ASSUME NEW m \in Nodes, NEW x, nodeSt' = [nodeSt EXCEPT ![m] = x],
             Pins(m) # {} => x \in {"live", "zombie"}, x = "zombie" => Pins(m) # {}
      PROVE  PinsExact'
  <2> SUFFICES ASSUME alive, NEW n \in Nodes PROVE PinOK(n)'
    BY <1>1, PinsSplit
  <2>1. PinOK(n) /\ Pins(n)' = Pins(n) /\ inflight'[n] = inflight[n]
    BY <1>1, <1>2, PinsSplit DEF Pins
  <2>2. nodeSt'[n] = IF n = m THEN x ELSE nodeSt[n]
    BY <1>4, TypeSplit DEF IInv, ProgressType
  <2> QED BY <1>4, <2>1, <2>2 DEF PinOK
<1>5. ASSUME NEW nm \in Names, ToolAdd(nm) PROVE PinsExact'
  <2>1. PICK g \in Gens(nm) : /\ nodeSt[<<nm, g>>] = "none"
                              /\ nodeSt' = [nodeSt EXCEPT ![<<nm, g>>] = "live"]
    BY <1>5 DEF ToolAdd
  <2>2. <<nm, g>> \in Nodes
    BY DEF Nodes
  <2> QED BY <1>4, <2>1, <2>2
<1>6. ASSUME NEW nm \in Names, ToolRemove(nm) PROVE PinsExact'
  <2>1. PICK n \in LiveNodes(nm) :
            nodeSt' = [nodeSt EXCEPT ![n] = IF inflight[n] = 0 THEN "freed" ELSE "zombie"]
    BY <1>6 DEF ToolRemove
  <2>2. n \in Nodes /\ alive
    BY <1>6 DEF LiveNodes, ToolRemove
  <2>3. inflight[n] = 0 <=> Pins(n) = {}
    BY <2>2, PinsSplit, PinsFinite, FS_EmptySet DEF PinOK
  <2>4. CASE Pins(n) = {}
    BY <1>4, <2>1, <2>2, <2>3, <2>4
  <2>5. CASE Pins(n) # {}
    BY <1>4, <2>1, <2>2, <2>3, <2>5
  <2> QED BY <2>4, <2>5
<1>7. ASSUME NEW h \in HookIds, HookAdd(h) \/ HookRemove(h) PROVE PinsExact'
  BY <1>3, <1>7 DEF HookAdd, HookRemove
<1> QED BY <1>5, <1>6, <1>7 DEF RegistryNext

\* Each call of a fresh batch pins the node its name resolves to.
LEMMA DispatchPins ==
    ASSUME IInv, PinsExact, NEW nm, Dispatch(nm)
    PROVE  PinsExact'
<1> DEFINE Q(n) == {c \in Calls : FindTool(nm[c]) = n}
<1>1. /\ alive /\ bst # "active" /\ bst' = "active" /\ UNCHANGED <<nodeSt, alive>>
      /\ def' = [c \in Calls |-> FindTool(nm[c])]
      /\ inflight' = [n \in Nodes |-> inflight[n] + Cardinality(Q(n))]
      /\ stage' = [c \in Calls |-> "new"]
  BY DEF Dispatch, FreshCalls
<1> SUFFICES ASSUME NEW n \in Nodes PROVE PinOK(n)'
  BY PinsSplit
<1>2. Pins(n)' = Q(n)
  BY <1>1 DEF Pins, Open
<1>3. PinOK(n) /\ Pins(n) = {}
  BY <1>1, PinsSplit DEF Pins
<1>4. inflight[n] = 0 /\ nodeSt[n] # "zombie"
  BY <1>3, FS_EmptySet DEF PinOK
<1>5. Cardinality(Q(n)) \in Nat
  <2>1. IsFiniteSet(Calls) /\ Q(n) \subseteq Calls
    BY NAssumption, FS_Interval DEF Calls
  <2> QED BY <2>1, FS_Subset, FS_CardinalityType
<1>6. inflight'[n] = Cardinality(Q(n))
  <2> HIDE DEF Q
  <2> QED BY <1>1, <1>4, <1>5
<1>7. Q(n) # {} => nodeSt[n] = "live"
  <2> SUFFICES ASSUME NEW c \in Calls, FindTool(nm[c]) = n PROVE nodeSt[n] = "live"
    OBVIOUS
  <2>1. n # NoNode
    BY NamesAssumption DEF Nodes, NoNode
  <2>2. n \in LiveNodes(nm[c])
    BY <2>1 DEF FindTool
  <2> QED BY <2>2 DEF LiveNodes
<1> QED BY <1>1, <1>2, <1>4, <1>6, <1>7 DEF PinOK

LEMMA NextPins ==
    ASSUME IInv, IInv', PinsExact, [Next]_vars
    PROVE  PinsExact'
<1>1. CASE RegistryNext
  BY <1>1, RegistryPins
<1>2. ASSUME NEW nm, Dispatch(nm) PROVE PinsExact'
  BY <1>2, DispatchPins
<1>3. CASE DispatchStep
  <2>1. stack # <<>> /\ Top.fn = "dispatch" /\ Top.i <= N /\ alive' = alive /\ def' = def
    BY <1>3 DEF DispatchStep, Running, agentVars
  <2>2. bst = "active" /\ Top.i \in Calls
    BY <2>1, AttachedFrame, AdvanceFrames
  <2>3. Top.i \in Open
    <3>1. Len(stack) \in 1 .. Len(stack) /\ DOMAIN stack = 1 .. Len(stack)
      BY <2>1, TypeSplit DEF IInv, ProgressType
    <3>2. Top = stack[1] /\ stack[1].i <= Top.i
      BY <2>1, <2>2, <3>1 DEF IInv, BatchShape, Top, Calls
    <3> QED BY <2>1, <2>2, <3>2 DEF IInv, BatchShape, Open
  <2>4. EndsStep(Top.i, Advance)
    BY <1>3, StepEnds DEF DispatchStep
  <2> QED BY <2>1, <2>2, <2>3, <2>4, EndsStepPins
<1>4. CASE Release /\ stack # <<>> /\ Top.fn # "detach"
  <2>1. bst = "active"
    BY <1>4, AttachedFrame
  <2>2. /\ UNCHANGED <<stage, nodeSt, inflight, alive, def>> /\ bst' \in {bst, "freed"}
    BY <1>4 DEF Release, Settle, agentVars
  <2>3. Open' = Open
    BY <2>2 DEF Open
  <2> QED BY <2>1, <2>2, <2>3, SamePins
<1>5. CASE Cancel
  <2>1. UNCHANGED <<stage, nodeSt, inflight, alive, def, bst>>
    BY <1>5 DEF Cancel
  <2>2. Open' = Open
    BY <2>1 DEF Open
  <2> QED BY <2>1, <2>2, SamePins
<1>6. CASE CancelStep
  <2> DEFINE c == Top.i
  <2>1. /\ stack # <<>> /\ Top.fn = "cancel" /\ c <= N /\ alive' = alive /\ def' = def
        /\ \/ stage[c] \in {"rl", "gate", "running"} /\ Report(c, Advance, "failed")
           \/ Wait(c, Advance, stage[c])
    BY <1>6 DEF CancelStep, Running, agentVars, Armed
  <2>2. bst = "active" /\ c \in Calls
    BY <2>1, AttachedFrame, AdvanceFrames
  <2> HIDE DEF c
  <2>3. CASE stage[c] \in {"rl", "gate", "running"} /\ Report(c, Advance, "failed")
    <3>1. c \in Open /\ EndsStep(c, Advance)
      BY <2>2, <2>3, StepEnds DEF Open
    <3> QED BY <2>1, <2>2, <3>1, EndsStepPins
  <2>4. CASE Wait(c, Advance, stage[c])
    <3>1. UNCHANGED <<stage, nodeSt, inflight, bst>>
      BY <2>2, <2>4, TypeSplit DEF Wait, IInv, ProgressType
    <3>2. Open' = Open
      BY <3>1 DEF Open
    <3> QED BY <2>1, <3>1, <3>2, SamePins
  <2> QED BY <2>1, <2>3, <2>4
<1>7. CASE ~alive'
  BY <1>7, PinsSplit
<1>8. CASE AgentFree \/ DetachStep \/ DetachReturn
  <2>1. AgentFree => ~alive'
    BY DEF AgentFree
  <2>2. DetachStep \/ DetachReturn => ~alive'
    BY DEF DetachStep, DetachReturn, agentVars, IInv, BatchShape
  <2> QED BY <1>7, <1>8, <2>1, <2>2
<1>9. ASSUME NEW c \in Calls, NEW stk, NEW ask, bst = "active", stage[c] # "done",
             alive' = alive, def' = def,
             PermissionGate(c, stk, ask) \/ GateRun(c, stk, ask) \/ DispatchOne(c, stk)
             \/ RunInvoke(c, stk) \/ Report(c, stk, "failed") \/ Report(c, stk, "ok")
      PROVE  PinsExact'
  <2>1. EndsStep(c, stk) /\ c \in Open
    BY <1>9, StepEnds DEF Open
  <2> QED BY <1>9, <2>1, EndsStepPins
<1>10. ASSUME NEW c \in Calls, RlTimer(c) PROVE PinsExact'
  <2>1. stack = <<>> /\ stage[c] = "rl" /\ DispatchOne(c, stack) /\ alive' = alive /\ def' = def
    BY <1>10 DEF RlTimer, agentVars
  <2>2. bst = "active"
    BY <2>1, WaitingAttached DEF UserCode, Running
  <2> QED BY <1>9, <2>1, <2>2
<1>11. ASSUME NEW c \in Calls, OnTimeout(c) PROVE PinsExact'
  <2>1. stack = <<>> /\ timer[c] /\ alive' = alive /\ def' = def
    BY <1>11 DEF OnTimeout, agentVars
  <2>2. bst = "active" /\ c \in Open
    BY <2>1, WaitingAttached DEF UserCode, Running, IInv, BatchShape, Open
  <2>3. CASE Finalize(c, stack, "timedout")
    BY <2>1, <2>2, <2>3, FinalizePins
  <2>4. CASE UNCHANGED <<stage, nodeSt, inflight, bst>>
    <3>1. Open' = Open
      BY <2>4 DEF Open
    <3> QED BY <2>1, <2>4, <3>1, SamePins
  <2> QED BY <1>11, <2>3, <2>4 DEF OnTimeout
<1>12. ASSUME NEW c \in Calls, NEW v, GateRespond(c, v) PROVE PinsExact'
  <2>1. /\ stage[c] = "gate" /\ UserCode /\ alive' = alive /\ def' = def
    BY <1>12 DEF GateRespond, IInv, BatchShape
  <2>2. bst = "active"
    BY <2>1, WaitingAttached
  <2> QED BY <1>9, <1>12, <2>1, <2>2 DEF GateRespond
<1>13. ASSUME NEW c \in Calls, NEW d, PermissionRespond(c, d) PROVE PinsExact'
  <2>1. stage[c] = "perm" /\ alive /\ alive' = alive /\ def' = def
    BY <1>13 DEF PermissionRespond, agentVars
  <2>2. bst = "active"
    BY <2>1 DEF IInv, BatchShape
  <2> QED BY <1>9, <1>13, <2>1, <2>2 DEF PermissionRespond
<1>14. ASSUME NEW c \in Calls, NEW out \in {"ok", "failed"}, ToolReport(c, out) PROVE PinsExact'
  <2>1. stage[c] = "running" /\ Report(c, stack, out) /\ alive' = alive /\ def' = def
    BY <1>14 DEF ToolReport, agentVars
  <2>2. bst = "active" \/ ~alive'
    BY <2>1 DEF IInv, BatchShape
  <2> QED BY <1>7, <1>9, <2>1, <2>2
<1>15. CASE UNCHANGED <<progress, alive, def>>
  <2>1. Open' = Open
    BY <1>15 DEF progress, Open
  <2> QED BY <1>15, <2>1, SamePins DEF progress
<1>16. ASSUME NEW c \in Calls, GateRespondLate(c) \/ ToolReportLate(c) PROVE PinsExact'
  BY <1>15, <1>16 DEF GateRespondLate, ToolReportLate, agentVars
<1>17. CASE UNCHANGED vars
  BY <1>15, <1>17 DEF vars, agentVars
<1>18. CASE DispatchReturn \/ InvokeReturn \/ CancelReturn
  BY <1>4, <1>18 DEF DispatchReturn, InvokeReturn, CancelReturn, Running
<1> QED BY <1>1, <1>2, <1>3, <1>5, <1>6, <1>8, <1>10, <1>11, <1>12, <1>13,
           <1>14, <1>16, <1>17, <1>18 DEF Next

\* A tool removed while calls run is kept exactly as long as they need it: no
\* call points at a freed node, and the last call's end frees the node.
THEOREM PinsAlwaysExact == Spec => []PinsExact
<1>1. Init => PinsExact
  <2> SUFFICES ASSUME Init, NEW n \in Nodes PROVE PinOK(n)
    BY PinsSplit
  <2>1. Pins(n) = {} /\ inflight[n] = 0 /\ nodeSt[n] \in {"live", "none"}
    BY DEF Init, Pins
  <2> QED BY <2>1, FS_EmptySet DEF PinOK
<1>2. IInv /\ IInv' /\ PinsExact /\ [Next]_vars => PinsExact'
  BY NextPins
<1> QED BY <1>1, <1>2, Invariance, PTL DEF Spec

-----------------------------------------------------------------------------
(* Cancelling a turn.  A cancel from inside the dispatch loop leaves that  *)
(* loop to go on; what follows is about one from the event loop.           *)

Past == {"perm", "running", "done"}

\* The cancel loop is the bottom frame, and every call it has passed, or every
\* call once it has returned, is with the user, runs or is done.
CancelShape ==
    /\ \A k \in DOMAIN stack : stack[k].fn = "cancel" => k = 1
    /\ cancelled /\ bst = "active" =>
         \A c \in Calls :
            (stack # <<>> /\ stack[1].fn = "cancel" => c < stack[1].i) => stage[c] \in Past

\* The stacks a step leaves that does not belong to the cancel loop.
KeepsLoop ==
    \/ stack' = stack
    \/ \E c \in Calls : stack' = Append(stack, Frame("invoke", c))
    \/ stack # <<>> /\ Top.fn # "cancel" /\ stack' = Pop

\* A frame is pushed.
LEMMA PushLast ==
    ASSUME NEW S, NEW s \in Seq(S), NEW e \in S
    PROVE  /\ Append(s, e) \in Seq(S) /\ Len(Append(s, e)) = Len(s) + 1
           /\ \A k \in 1 .. Len(s) : Append(s, e)[k] = s[k]
           /\ Append(s, e)[Len(s) + 1] = e
  OBVIOUS

LEMMA LoopKept ==
    ASSUME IInv, CancelShape, KeepsLoop
    PROVE  /\ \A k \in DOMAIN stack' : stack'[k].fn = "cancel" => k = 1
           /\ stack # <<>> /\ stack[1].fn = "cancel" => stack' # <<>> /\ stack'[1] = stack[1]
           /\ stack' # <<>> /\ stack'[1].fn = "cancel" => stack # <<>> /\ stack'[1] = stack[1]
<1>1. stack \in Seq(Frames) /\ Len(stack) \in Nat /\ DOMAIN stack = 1 .. Len(stack)
  BY TypeSplit DEF IInv, ProgressType
<1>2. CASE stack' = stack
  BY <1>2 DEF CancelShape
<1>3. ASSUME NEW c \in Calls, stack' = Append(stack, Frame("invoke", c))
      PROVE  /\ \A k \in DOMAIN stack' : stack'[k].fn = "cancel" => k = 1
             /\ stack # <<>> /\ stack[1].fn = "cancel" => stack' # <<>> /\ stack'[1] = stack[1]
             /\ stack' # <<>> /\ stack'[1].fn = "cancel" => stack # <<>> /\ stack'[1] = stack[1]
  <2> DEFINE f == Frame("invoke", c)
  <2>1. f \in Frames /\ f.fn = "invoke"
    BY NAssumption DEF Frame, Frames, Calls
  <2>2. stack' = Append(stack, f)
    BY <1>3
  <2> HIDE DEF f
  <2>3. /\ DOMAIN stack' = 1 .. Len(stack) + 1 /\ stack'[Len(stack) + 1] = f /\ stack' # <<>>
        /\ \A k \in 1 .. Len(stack) : stack'[k] = stack[k]
    BY <1>1, <2>1, <2>2
  <2>4. stack # <<>> => 1 \in 1 .. Len(stack)
    BY <1>1
  <2>5. stack = <<>> => Len(stack) + 1 = 1
    BY <1>1
  <2>6. \A k \in DOMAIN stack' : k \in 1 .. Len(stack) \/ k = Len(stack) + 1
    BY <1>1, <2>3
  <2> QED BY <1>1, <2>1, <2>3, <2>4, <2>5, <2>6 DEF CancelShape
<1>4. CASE stack # <<>> /\ Top.fn # "cancel" /\ stack' = Pop
  <2>1. /\ DOMAIN stack' = 1 .. Len(stack) - 1 /\ Len(stack) >= 1
        /\ \A k \in 1 .. Len(stack) - 1 : stack'[k] = stack[k]
    BY <1>1, <1>4 DEF Pop
  <2>2. stack' # <<>> => 1 \in 1 .. Len(stack) - 1
    BY <1>1, <1>4 DEF Pop
  <2>3. stack[1].fn = "cancel" => Len(stack) # 1
    BY <1>4 DEF Top
  <2>4. Len(stack) # 1 => stack' # <<>>
    BY <1>1, <2>1
  <2> QED BY <1>1, <1>4, <2>1, <2>2, <2>3, <2>4 DEF CancelShape
<1> QED BY <1>2, <1>3, <1>4 DEF KeepsLoop

LEMMA ShapeMoves ==
    ASSUME IInv, CancelShape, KeepsLoop, cancelled' = cancelled, bst' = bst \/ bst' # "active",
           \A c \in Calls : stage[c] \in Past => stage'[c] \in Past
    PROVE  CancelShape'
  BY LoopKept DEF CancelShape

\* A step that ends for call c, waiting or not, keeps what the loop has passed:
\* it finishes the call, starts it, or the call was not passed yet.
LEMMA EndsStepShape ==
    ASSUME IInv, CancelShape, NEW c \in Calls, EndsStep(c, stack), KeepsLoop, cancelled' = cancelled,
           stage[c] \in Past => stage'[c] \in Past
    PROVE  CancelShape'
<1>1. stage \in [Calls -> Stages]
  BY TypeSplit DEF IInv, ProgressType
<1>2. \A d \in Calls : d # c => stage'[d] = stage[d]
  BY <1>1 DEF EndsStep, GoesOn, Finalize
<1>3. bst' = bst \/ bst' # "active"
  BY DEF EndsStep, GoesOn, Finalize, Settle
<1> QED BY <1>2, <1>3, ShapeMoves

\* Where the operators that end a step leave the stack.
LEMMA LeavesLoop ==
    ASSUME NEW c \in Calls, NEW ask,
           PermissionGate(c, stack, ask) \/ GateRun(c, stack, ask) \/ DispatchOne(c, stack)
           \/ RunInvoke(c, stack) \/ Report(c, stack, "failed") \/ Report(c, stack, "ok")
    PROVE  KeepsLoop
<1>1. RunInvoke(c, stack) => KeepsLoop
  BY DEF RunInvoke, KeepsLoop
<1>2. \A st : Wait(c, stack, st) => KeepsLoop
  BY DEF Wait, KeepsLoop
<1>3. \A out : Report(c, stack, out) => KeepsLoop
  BY DEF Report, Finalize, KeepsLoop
<1>4. \A a : PermissionGate(c, stack, a) => KeepsLoop
  BY <1>1, <1>2, <1>3 DEF PermissionGate
<1>5. \A a : GateRun(c, stack, a) => KeepsLoop
  BY <1>2, <1>3, <1>4 DEF GateRun
<1> QED BY <1>1, <1>3, <1>4, <1>5 DEF DispatchOne

\* A dispatch loop that still has calls to make was not cancelled.
LEMMA DispatchUncancelled ==
    ASSUME IInv, CancelShape, DispatchStep
    PROVE  /\ ~cancelled /\ bst = "active" /\ Len(stack) = 1 /\ Top.i \in Calls
           /\ SameFrames(Top.i, Advance)
<1>1. stack # <<>> /\ Top.fn = "dispatch" /\ Top.i <= N
  BY DEF DispatchStep, Running
<1>2. bst = "active" /\ Top.i \in Calls /\ SameFrames(Top.i, Advance)
  BY <1>1, AttachedFrame, AdvanceFrames
<1>3. Len(stack) \in 1 .. Len(stack) /\ DOMAIN stack = 1 .. Len(stack)
  BY <1>1, TypeSplit DEF IInv, ProgressType
<1>4. Len(stack) = 1 /\ Top = stack[1] /\ stack[1].i <= Top.i
  BY <1>1, <1>2, <1>3 DEF IInv, BatchShape, Top, Calls
<1>5. stage[Top.i] = "new"
  BY <1>1, <1>2, <1>4 DEF IInv, BatchShape
<1>6. ~cancelled
  BY <1>1, <1>2, <1>4, <1>5 DEF CancelShape, Past
<1> QED BY <1>2, <1>4, <1>6

LEMMA CancelStepShape ==
    ASSUME IInv, CancelShape, CancelStep
    PROVE  /\ CancelShape'
           /\ \A d \in Calls : stage'[d] = "running" => stage[d] = "running"
<1> DEFINE c == Top.i
<1>1. /\ stack # <<>> /\ Top.fn = "cancel" /\ c <= N /\ cancelled' = cancelled
      /\ \/ stage[c] \in {"rl", "gate", "running"} /\ Report(c, Advance, "failed")
         \/ stage[c] \notin {"rl", "gate"} /\ Wait(c, Advance, stage[c])
  BY DEF CancelStep, Running, agentVars, Armed
<1>2. bst = "active" /\ c \in Calls /\ Len(Advance) = Len(stack) /\ Advance \in Seq(Frames)
      /\ \A k \in 1 .. Len(stack) : Advance[k].fn = stack[k].fn
  BY <1>1, AttachedFrame, AdvanceFrames
<1>3. Len(stack) \in 1 .. Len(stack) /\ DOMAIN stack = 1 .. Len(stack)
  BY <1>1, TypeSplit DEF IInv, ProgressType
<1>4. Len(stack) = 1 /\ Top = stack[1] /\ stack[1].fn = "cancel"
  BY <1>1, <1>3 DEF CancelShape, Top
<1>5. Advance[1] = Frame(Top.fn, c + 1)
  BY <1>1, <1>4, AdvanceFrames
<1>6. Advance[1].fn = "cancel" /\ Advance[1].i = c + 1
  BY <1>1, <1>5 DEF Frame
<1>7. stage \in [Calls -> Stages] /\ stage[c] # "new" /\ c = stack[1].i
  BY <1>2, <1>4, TypeSplit DEF IInv, ProgressType, BatchShape
<1> HIDE DEF c
<1>8. stack' = Advance /\ (bst' = bst \/ bst' # "active")
  BY <1>1 DEF Report, Finalize, Wait, Settle
<1>9. /\ stage'[c] \in Past /\ \A d \in Calls : d # c => stage'[d] = stage[d]
      /\ stage'[c] = "running" => stage[c] = "running"
  BY <1>1, <1>2, <1>7 DEF Report, Finalize, Wait, Past, Stages
<1>10. \A d \in Calls : d < c + 1 => d < c \/ d = c
  BY <1>2 DEF Calls
<1>11. DOMAIN stack' = 1 .. 1 /\ stack' # <<>>
  BY <1>2, <1>4, <1>8
<1>12. \A d \in Calls : (d < stack'[1].i /\ cancelled /\ bst = "active") => stage'[d] \in Past
  BY <1>4, <1>6, <1>7, <1>8, <1>9, <1>10 DEF CancelShape
<1>13. \A k \in DOMAIN stack' : k = 1
  BY <1>11
<1>14. CancelShape'
  BY <1>1, <1>6, <1>8, <1>11, <1>12, <1>13 DEF CancelShape
<1> QED BY <1>9, <1>14

LEMMA NextShape ==
    ASSUME CancelDepths \subseteq {0}, IInv, CancelShape, [Next]_vars
    PROVE  CancelShape'
<1>0. stack \in Seq(Frames) /\ Len(stack) \in Nat /\ DOMAIN stack = 1 .. Len(stack)
  BY TypeSplit DEF IInv, ProgressType
<1>1. CASE UNCHANGED <<stack, cancelled, bst, stage>>
  BY <1>1 DEF CancelShape
<1>2. CASE RegistryNext
  BY <1>1, <1>2 DEF RegistryNext, ToolAdd, ToolRemove, HookAdd, HookRemove, batchVars
<1>3. ASSUME NEW nm, Dispatch(nm) PROVE CancelShape'
  <2>1. /\ cancelled' = FALSE /\ stack' = <<Frame("dispatch", 1)>>
    BY <1>3 DEF Dispatch
  <2>2. DOMAIN stack' = 1 .. 1 /\ \A k \in 1 .. 1 : k = 1
    BY <2>1
  <2> QED BY <2>1, <2>2 DEF CancelShape
<1>4. CASE DispatchStep
  <2>1. /\ ~cancelled /\ Len(stack) = 1 /\ Top.i \in Calls /\ SameFrames(Top.i, Advance)
        /\ cancelled' = cancelled /\ bst = "active" /\ Top.fn = "dispatch"
    BY <1>4, DispatchUncancelled DEF DispatchStep, agentVars, Running
  <2>2. stack' \in Ends(Top.i, Advance)
    BY <1>4 DEF DispatchStep, DispatchOne, GateRun, PermissionGate, RunInvoke, Report, Finalize,
                Wait, Ends
  <2>3. /\ Advance \in Seq(Frames) /\ Len(Advance) = 1 /\ Advance[1].fn # "cancel"
    <3>1. 1 \in 1 .. Len(Advance) /\ stack[1] = Top
      BY <2>1 DEF SameFrames, Top
    <3> QED BY <2>1, <3>1 DEF SameFrames
  <2>4. PICK f \in Frames : f = Frame("invoke", Top.i) /\ f.fn = "invoke"
    <3>1. Frame("invoke", Top.i) \in Frames /\ Frame("invoke", Top.i).fn = "invoke"
      BY <2>1, NAssumption DEF Frame, Frames, Calls
    <3> QED BY <3>1
  <2>5. stack' = Advance \/ stack' = Append(Advance, f)
    BY <2>2, <2>4 DEF Ends
  <2>6. \A k \in DOMAIN stack' : stack'[k].fn # "cancel"
    <3>1. CASE stack' = Advance
      BY <2>3, <3>1
    <3>2. CASE stack' = Append(Advance, f)
      <4>1. /\ stack' \in Seq(Frames) /\ Len(stack') = Len(Advance) + 1
            /\ \A k \in 1 .. Len(Advance) : stack'[k] = Advance[k]
            /\ stack'[Len(Advance) + 1] = f
        <5>1. PICK a \in Seq(Frames) : a = Advance
          BY <2>3
        <5>2. stack' = Append(a, f)
          BY <3>2, <5>1
        <5> QED BY <5>1, <5>2, PushLast
      <4>2. DOMAIN stack' = 1 .. 2 /\ stack'[1] = Advance[1] /\ stack'[2] = f
        BY <2>3, <4>1
      <4> QED BY <2>3, <2>4, <4>2
    <3> QED BY <2>5, <3>1, <3>2
  <2> QED BY <2>1, <2>6 DEF CancelShape
<1>5. CASE Release /\ stack # <<>> /\ Top.fn # "cancel"
  <2>1. /\ UNCHANGED <<stage, cancelled>> /\ (bst' = bst \/ bst' # "active") /\ KeepsLoop
    BY <1>5 DEF Release, Settle, agentVars, KeepsLoop
  <2> QED BY <2>1, ShapeMoves
<1>6. CASE DispatchReturn \/ InvokeReturn
  BY <1>5, <1>6 DEF DispatchReturn, InvokeReturn, Running
<1>7. CASE Cancel
  <2>1. Len(stack) = 0 /\ stack' = Append(stack, Frame("cancel", 1))
    BY <1>0, <1>7 DEF Cancel
  <2> DEFINE f == Frame("cancel", 1)
  <2>2. f \in Frames /\ f.fn = "cancel" /\ f.i = 1
    BY NAssumption DEF Frame, Frames
  <2>3. stack' = Append(stack, f)
    BY <2>1
  <2> HIDE DEF f
  <2>4. DOMAIN stack' = 1 .. 1 /\ stack'[1] = f /\ stack' # <<>>
    BY <1>0, <2>1, <2>2, <2>3
  <2>5. \A c \in Calls : ~(c < 1)
    BY DEF Calls
  <2>6. \A k \in DOMAIN stack' : k = 1
    BY <2>4
  <2> QED BY <2>2, <2>4, <2>5, <2>6 DEF CancelShape
<1>8. CASE CancelStep
  BY <1>8, CancelStepShape
<1>9. CASE CancelReturn
  <2>1. /\ stack # <<>> /\ Top.fn = "cancel" /\ Top.i > N /\ stack' = Pop
        /\ UNCHANGED <<stage, cancelled>> /\ (bst' = bst \/ bst' # "active")
    BY <1>9 DEF CancelReturn, Running, Release, Settle, agentVars
  <2>2. Len(stack) \in 1 .. Len(stack)
    BY <1>0, <2>1
  <2>3. Len(stack) = 1 /\ Top = stack[1] /\ stack[1] \in Frames
    BY <1>0, <2>1, <2>2 DEF CancelShape, Top
  <2>4. stack' = <<>>
    BY <1>0, <2>1, <2>3 DEF Pop
  <2>5. \A c \in Calls : c < stack[1].i
    BY <2>1, <2>3, NAssumption DEF Calls, Frames
  <2> QED BY <2>1, <2>3, <2>4, <2>5 DEF CancelShape
<1>10. CASE AgentFree
  <2>1. stack = <<>> /\ (stack' = <<>> \/ stack' = <<Frame("detach", 1)>>)
        /\ UNCHANGED <<stage, cancelled>> /\ (bst' = bst \/ bst' = "detached")
        /\ (stack' # <<>> => bst' = "detached")
    BY <1>10 DEF AgentFree
  <2>2. \A k \in DOMAIN stack' : stack'[k].fn # "cancel"
    <3>1. CASE stack' = <<>>
      BY <3>1
    <3>2. CASE stack' = <<Frame("detach", 1)>>
      <4>1. DOMAIN stack' = 1 .. 1 /\ stack'[1].fn = "detach"
        BY <3>2 DEF Frame
      <4> QED BY <4>1
    <3> QED BY <2>1, <3>1, <3>2
  <2> QED BY <2>1, <2>2 DEF CancelShape
<1>11. CASE DetachStep \/ DetachReturn
  <2>1. bst = "detached" /\ Running("detach") /\ bst' # "active"
    BY <1>11 DEF DetachStep, DetachReturn, Finalize, Settle
  <2>2. Len(stack) = 1 /\ stack[1].fn = "detach" /\ Top = stack[1] /\ stack # <<>>
    BY <2>1, DetachFrame DEF Running
  <2>3. CASE stack' = Pop
    <3>1. stack' = <<>>
      BY <1>0, <2>2, <2>3 DEF Pop
    <3> QED BY <2>1, <3>1 DEF CancelShape
  <2>4. CASE stack' = Advance /\ Top.i <= N
    <3>1. Len(Advance) = 1 /\ Advance \in Seq(Frames) /\ Advance[1].fn = "detach"
      <4>1. 1 \in 1 .. Len(stack)
        BY <2>2
      <4> QED BY <2>2, <2>4, <4>1, AdvanceFrames
    <3>2. \A k \in DOMAIN stack' : stack'[k].fn # "cancel"
      BY <2>4, <3>1
    <3> QED BY <2>1, <3>2 DEF CancelShape
  <2> QED BY <1>11, <2>3, <2>4 DEF DetachStep, DetachReturn, Finalize
<1>12. ASSUME NEW c \in Calls, NEW ask, stage[c] \notin Past, cancelled' = cancelled,
              GateRun(c, stack, ask) \/ DispatchOne(c, stack) \/ Report(c, stack, "failed")
       PROVE  CancelShape'
  <2>1. EndsStep(c, stack) /\ KeepsLoop
    BY <1>12, StepEnds, LeavesLoop
  <2> QED BY <1>12, <2>1, EndsStepShape
<1>13. ASSUME NEW c \in Calls, cancelled' = cancelled, NEW out \in {"ok", "failed"},
              RunInvoke(c, stack) \/ Report(c, stack, out)
       PROVE  CancelShape'
  <2>1. EndsStep(c, stack) /\ KeepsLoop
    BY <1>13, StepEnds, LeavesLoop
  <2>2. stage'[c] \in Past
    <3>1. stage \in [Calls -> Stages]
      BY TypeSplit DEF IInv, ProgressType
    <3> QED BY <1>13, <3>1 DEF RunInvoke, Report, Finalize, Past
  <2> QED BY <1>13, <2>1, <2>2, EndsStepShape
<1>14. ASSUME NEW c \in Calls, RlTimer(c) PROVE CancelShape'
  BY <1>12, <1>14 DEF RlTimer, agentVars, Past
<1>15. ASSUME NEW c \in Calls, OnTimeout(c) PROVE CancelShape'
  <2>1. cancelled' = cancelled
    BY <1>15 DEF OnTimeout, agentVars
  <2>2. CASE Finalize(c, stack, "timedout")
    <3>1. EndsStep(c, stack) /\ KeepsLoop /\ stage'[c] = "done"
      BY <2>2, TypeSplit DEF EndsStep, Finalize, KeepsLoop, IInv, ProgressType
    <3> QED BY <2>1, <3>1, EndsStepShape DEF Past
  <2>3. CASE UNCHANGED <<stack, bst, stage>>
    BY <1>1, <2>1, <2>3
  <2> QED BY <1>15, <2>2, <2>3 DEF OnTimeout
<1>16. ASSUME NEW c \in Calls, NEW v, GateRespond(c, v) PROVE CancelShape'
  <2>1. stage[c] = "gate" /\ cancelled' = cancelled
    BY <1>16 DEF GateRespond, IInv, BatchShape
  <2> QED BY <1>12, <1>16, <2>1 DEF GateRespond, Past
<1>17. ASSUME NEW c \in Calls, NEW d, PermissionRespond(c, d) PROVE CancelShape'
  BY <1>13, <1>17 DEF PermissionRespond, agentVars
<1>18. ASSUME NEW c \in Calls, NEW out \in {"ok", "failed"}, ToolReport(c, out) PROVE CancelShape'
  BY <1>13, <1>18 DEF ToolReport, agentVars
<1>19. ASSUME NEW c \in Calls, GateRespondLate(c) \/ ToolReportLate(c) PROVE CancelShape'
  BY <1>1, <1>19 DEF GateRespondLate, ToolReportLate, agentVars, progress
<1>20. CASE UNCHANGED vars
  BY <1>1, <1>20 DEF vars, agentVars, progress
<1> QED BY <1>2, <1>3, <1>4, <1>6, <1>7, <1>8, <1>9, <1>10, <1>11, <1>14, <1>15,
           <1>16, <1>17, <1>18, <1>19, <1>20 DEF Next

\* What a step may do to a call after a cancel: no call starts but one the
\* user allows.
StartsAllowed ==
    cancelled /\ (\A k \in DOMAIN stack : stack[k].fn # "cancel") =>
        \A c \in Calls : stage[c] # "running" /\ stage'[c] = "running" => stage[c] = "perm"

LEMMA NextStarts ==
    ASSUME IInv, CancelShape, Next
    PROVE  StartsAllowed
<1> SUFFICES ASSUME cancelled, \A k \in DOMAIN stack : stack[k].fn # "cancel",
                    NEW c \in Calls, stage[c] # "running", stage'[c] = "running"
             PROVE  stage[c] = "perm"
  BY DEF StartsAllowed
<1>0. /\ stack \in Seq(Frames) /\ DOMAIN stack = 1 .. Len(stack) /\ Len(stack) \in Nat
      /\ stage \in [Calls -> Stages]
  BY TypeSplit DEF IInv, ProgressType
<1>1. stack # <<>> => stack[1].fn # "cancel"
  <2>1. stack # <<>> => 1 \in 1 .. Len(stack)
    BY <1>0
  <2> QED BY <1>0, <2>1
<1>2. bst = "active" => \A d \in Calls : stage[d] \in Past
  BY <1>1 DEF CancelShape
<1>3. stage'[c] # stage[c]
  OBVIOUS
<1>4. CASE RegistryNext \/ Cancel \/ AgentFree \/ DispatchReturn \/ InvokeReturn \/ CancelReturn
           \/ DetachReturn
  BY <1>3, <1>4 DEF RegistryNext, ToolAdd, ToolRemove, HookAdd, HookRemove, batchVars, Cancel,
                    AgentFree, DispatchReturn, InvokeReturn, CancelReturn, DetachReturn, Release
<1>5. ASSUME NEW nm, Dispatch(nm) PROVE FALSE
  BY <1>5 DEF Dispatch, FreshCalls
<1>6. CASE DispatchStep
  BY <1>6, DispatchUncancelled
<1>7. CASE CancelStep
  BY <1>7, CancelStepShape
<1>8. CASE DetachStep
  <2>1. Running("detach") /\ Top.i <= N
    BY <1>8 DEF DetachStep
  <2>2. Top.i \in Calls
    BY <2>1, AdvanceFrames DEF Running
  <2> QED BY <1>0, <1>3, <1>8, <2>2 DEF DetachStep, Finalize
<1>9. ASSUME NEW d \in Calls, stage[d] \in {"rl", "gate"}, UserCode PROVE FALSE
  <2>1. bst = "active"
    BY <1>9, WaitingAttached
  <2> QED BY <1>2, <1>9, <2>1 DEF Past
<1>10. ASSUME NEW d \in Calls, RlTimer(d) PROVE FALSE
  BY <1>9, <1>10 DEF RlTimer, UserCode, Running
<1>11. ASSUME NEW d \in Calls, NEW v, GateRespond(d, v) PROVE FALSE
  <2>1. stage[d] = "gate" /\ UserCode
    BY <1>11 DEF GateRespond, IInv, BatchShape
  <2> QED BY <1>9, <2>1
<1>12. ASSUME NEW d \in Calls, NEW a, PermissionRespond(d, a) PROVE stage[c] = "perm"
  BY <1>0, <1>3, <1>12 DEF PermissionRespond, RunInvoke, Report, Finalize
<1>13. ASSUME NEW d \in Calls, NEW out, ToolReport(d, out) PROVE FALSE
  BY <1>0, <1>3, <1>13 DEF ToolReport, Report, Finalize
<1>14. ASSUME NEW d \in Calls, OnTimeout(d) PROVE FALSE
  BY <1>0, <1>3, <1>14 DEF OnTimeout, Finalize
<1>15. ASSUME NEW d \in Calls, GateRespondLate(d) \/ ToolReportLate(d) PROVE FALSE
  BY <1>3, <1>15 DEF GateRespondLate, ToolReportLate, progress
<1> QED BY <1>4, <1>5, <1>6, <1>7, <1>8, <1>10, <1>11, <1>12, <1>13, <1>14, <1>15 DEF Next

\* A turn cancelled from the event loop starts no tool afterwards that the user
\* does not allow: neither a rate-limit timer nor a hook's late answer does.
\* (From inside the dispatch loop, clm_tools_cancel leaves the calls that loop
\* has yet to reach to it, hence the assumption.)
THEOREM CancelledStaysCancelled ==
    ASSUME CancelDepths \subseteq {0}
    PROVE  Spec => NoStartAfterCancel
<1>1. Init => CancelShape
  BY DEF Init, CancelShape
<1>2. IInv /\ CancelShape /\ [Next]_vars => CancelShape'
  BY NextShape
<1>3. IInv /\ CancelShape /\ [Next]_vars => [StartsAllowed]_vars
  BY NextStarts
<1>4. Spec => [][StartsAllowed]_vars
  BY <1>1, <1>2, <1>3, Invariance, PTL DEF Spec
<1> QED BY <1>4 DEF NoStartAfterCancel, StartsAllowed
=============================================================================
