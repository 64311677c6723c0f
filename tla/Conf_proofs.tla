---------------------------- MODULE Conf_proofs -----------------------------
(***************************************************************************)
(* Proofs about module Conf: types, the three stacks of plm_conf_load, the *)
(* scope of variables and the context a setter gets.                       *)
(***************************************************************************)
EXTENDS Conf, SequenceTheorems, FiniteSetTheorems, FunctionTheorems, WellFoundedInduction, TLAPS

(* The blocks of the text, as the loader counts them: the outermost is the *)
(* file, and there is a current node exactly inside a block.               *)
Blocks ==
    /\ block \in Nat /\ depth = block /\ Len(open) = block + 1
    /\ node <=> block > 0
    /\ node => bcData # NULL
    /\ open[block + 1].ctx = NULL
    /\ \A i \in 1..block : open[i].ctx # NULL

(* Where the definitions of each open block stand in var_stack: those of   *)
(* block i from base[i] on, then the mark of the block, then those of the  *)
(* block around it.                                                        *)
LayersAt(n, stack, blocks, base) ==
    /\ base[1] = 1 /\ base[n + 1] = Len(stack) + 1
    /\ \A i \in 1..n :
          /\ base[i + 1] = base[i] + Len(blocks[i].defs) + 1
          /\ stack[base[i + 1] - 1] = Mark
          /\ \A j \in 1..Len(blocks[i].defs) : stack[base[i] + j - 1] = blocks[i].defs[j]
    /\ \A i, k \in 1..(n + 1) : i < k => base[i] < base[k]
    /\ \A p \in 1..Len(stack) : \E i \in 1..n : base[i] <= p /\ p < base[i + 1]

Layered(n, stack, blocks) ==
    \E base \in [1..(n + 1) -> 1..(Len(stack) + 1)] : LayersAt(n, stack, blocks, base)

Layers ==
    /\ block > 0 => Layered(block, varStack, open)
    /\ block = 0 => Marks = {}

(* While no plugin's block stands in another's, the current context is     *)
(* that of the plugin whose block is open, and of the command that a '}'   *)
(* would run again.                                                        *)
Contexts ==
    /\ \A i \in 1..Len(open) : i # 1 \/ open[i].ctx \in {NULL, First} => open[i].plg = Main
    /\ open[1].plg # Main => bcData # NULL /\ plgOf[bcData] = open[1].plg
    /\ cl.kind = "set" /\ cl.plg # Main => bcData # NULL /\ plgOf[bcData] = cl.plg
    /\ SetterFits

(* With one block at the top level, nothing is defined before it or seen   *)
(* after it.                                                               *)
Scopes ==
    /\ tops = 0 => block = 0 /\ bcData = NULL
    /\ block > 0 \/ tops = 0 => open[block + 1].defs = <<>>
    /\ VarsScoped

-----------------------------------------------------------------------------
(* Smallest elements, and sequences.                                       *)

LEMMA MinIn ==
  ASSUME NEW S \in SUBSET Nat, S # {}
  PROVE  Min(S) \in S /\ \A j \in S : Min(S) <= j
<1> DEFINE R == OpToRel(<, Nat)
<1>1. IsWellFoundedOn(R, Nat)
  BY NatLessThanWellFounded, Zenon
<1>2. \A i, j \in Nat : i < j => <<i, j>> \in R
  BY DEF OpToRel
<1> HIDE DEF R
<1>3. PICK i \in S : \A j \in S : ~ (<<j, i>> \in R)
  BY <1>1, WFMin
<1>4. \A j \in S : ~ (j < i)
  BY <1>2, <1>3
<1>5. \E x \in S : \A y \in S : x <= y
  BY <1>4
<1> QED
  BY <1>5 DEF Min

LEMMA MinIs ==
  ASSUME NEW S \in SUBSET Nat, NEW x \in S, \A y \in S : x <= y
  PROVE  Min(S) = x
<1>1. Min(S) \in S /\ Min(S) <= x
  BY MinIn
<1>2. x <= Min(S) /\ Min(S) \in Nat /\ x \in Nat
  BY <1>1
<1> QED
  BY <1>1, <1>2

LEMMA Prepend ==
  ASSUME NEW S, NEW s \in Seq(S), NEW x \in S
  PROVE  /\ <<x>> \o s \in Seq(S) /\ Len(<<x>> \o s) = Len(s) + 1 /\ Len(s) \in Nat
         /\ DOMAIN (<<x>> \o s) = 1..(Len(s) + 1) /\ <<x>> \o s # <<>>
         /\ (<<x>> \o s)[1] = x /\ \A i \in 1..Len(s) : (<<x>> \o s)[i + 1] = s[i]
<1> DEFINE one == <<x>>  new == one \o s  n == Len(s)
<1>1. one \in Seq(S) /\ Len(one) = 1 /\ one[1] = x
  OBVIOUS
<1> HIDE DEF one
<1>2. /\ new \in Seq(S) /\ Len(new) = Len(one) + Len(s)
      /\ \A i \in 1 .. Len(one) + Len(s) :
           new[i] = IF i <= Len(one) THEN one[i] ELSE s[i - Len(one)]
  BY <1>1, ConcatProperties
<1>3. n \in Nat
  BY LenProperties
<1>4. DOMAIN new = 1 .. Len(new)
  BY <1>2, LenProperties
<1> HIDE DEF new, n
<1>5. Len(new) = n + 1 /\ \A i \in 1 .. n + 1 : new[i] = IF i <= 1 THEN x ELSE s[i - 1]
  BY <1>1, <1>2, <1>3 DEF n
<1>6. \A i \in 1 .. n : new[i + 1] = s[i]
  <2> TAKE i \in 1 .. n
  <2>1. i + 1 \in 1 .. n + 1 /\ ~ (i + 1 <= 1) /\ (i + 1) - 1 = i
    BY <1>3
  <2> QED
    BY <1>5, <2>1
<1>7. new[1] = x /\ new # <<>>
  BY <1>2, <1>3, <1>5, EmptySeq
<1> QED
  BY <1>2, <1>3, <1>4, <1>5, <1>6, <1>7 DEF n, new, one

LEMMA Rest ==
  ASSUME NEW S, NEW s \in Seq(S), NEW k \in 1..(Len(s) + 1)
  PROVE  /\ SubSeq(s, k, Len(s)) \in Seq(S) /\ Len(SubSeq(s, k, Len(s))) = Len(s) - k + 1
         /\ Len(s) \in Nat
         /\ \A i \in 1..(Len(s) - k + 1) : SubSeq(s, k, Len(s))[i] = s[k + i - 1]
<1> DEFINE n == Len(s)  new == SubSeq(s, k, n)
<1>1. n \in Nat /\ \A i \in 1 .. n : s[i] \in S
  BY LenProperties, ElementOfSeq
<1>2. /\ new \in Seq(S) /\ Len(new) = IF k <= n THEN n - k + 1 ELSE 0
      /\ \A i \in 1 .. n - k + 1 : new[i] = s[k + i - 1]
  <2> HIDE DEF n
  <2>1. \A i \in k .. n : s[i] \in S
    BY <1>1 DEF n
  <2>2. k \in Int /\ n \in Int
    BY <1>1
  <2> QED
    BY <2>1, <2>2, SubSeqProperties
<1> HIDE DEF new
<1>3. k \in Nat /\ k <= n + 1
  BY <1>1
<1> HIDE DEF n
<1>4. Len(new) = n - k + 1
  BY <1>1, <1>2, <1>3
<1> QED
  BY <1>1, <1>2, <1>4 DEF n, new

-----------------------------------------------------------------------------
(* Types.                                                                  *)

Tags == {"node", "null", "stale", "wild"}

LEMMA CurrTypes ==
  ASSUME TypeOK, NEW g \in Currs
  PROVE  /\ g \in Tags /\ Curr(g) \in 0..Len(plgOf)
         /\ node => g = "node" /\ Curr(g) = bcData
         /\ ~node => g \in {"null", "stale", "wild"}
         /\ ~node /\ bcData = NULL => g # "stale"
BY ConfAssumption, SMTT(30) DEF Currs, Curr, Tags, TypeOK, NULL

LEMMA Scalars ==
  ASSUME TypeOK
  PROVE  /\ nline \in Nat /\ nline <= MaxLines /\ MaxLines \in Nat
         /\ block \in Int /\ depth \in Nat /\ tops \in Nat /\ Len(plgOf) \in Nat
<1>1. nline \in 0..MaxLines /\ block \in Int /\ depth \in Nat /\ tops \in Nat
  BY Zenon DEF TypeOK
<1>2. Len(plgOf) \in Nat
  BY LenProperties, Zenon DEF TypeOK
<1> QED
  BY <1>1, <1>2, ConfAssumption

LEMMA CmdTypes ==
  ASSUME NEW cmd \in Cmds
  PROVE  /\ cmd.kind \in {"block", "set", "load"} /\ cmd.plg \in Plugins \cup {Main}
         /\ cmd.kind = "load" => cmd.plg \in Plugins
BY DEF Cmds

(* A definition that is found is one of the stack, and not a mark.         *)
LEMMA FirstDefIs ==
  ASSUME NEW s \in Seq(Defs \cup {Mark}), NEW name \in Names
  PROVE  \/ FirstDef(s, name) = NoDef /\ DefsOf(s, name) = {}
         \/ /\ FirstDef(s, name) \in Defs /\ Min(DefsOf(s, name)) \in DefsOf(s, name)
            /\ \A j \in DefsOf(s, name) : Min(DefsOf(s, name)) <= j
            /\ FirstDef(s, name) = s[Min(DefsOf(s, name))]
<1> DEFINE D == DefsOf(s, name)
<1>1. CASE D = {}
  BY <1>1 DEF FirstDef
<1>2. CASE D # {}
  <2>1. Len(s) \in Nat /\ DOMAIN s = 1..Len(s)
    BY LenProperties
  <2>2. D \subseteq DOMAIN s /\ \A i \in D : s[i].name = name
    BY DEF DefsOf
  <2>3. D \in SUBSET Nat
    BY <2>1, <2>2
  <2> HIDE DEF D
  <2>4. Min(D) \in D /\ \A j \in D : Min(D) <= j
    BY <1>2, <2>3, MinIn
  <2>5. s[Min(D)] \in Defs \cup {Mark} /\ s[Min(D)].name = name
    BY <2>1, <2>2, <2>4, ElementOfSeq
  <2>6. s[Min(D)] # Mark
    BY <2>5, ConfAssumption DEF Mark
  <2> QED
    BY <1>2, <2>4, <2>5, <2>6 DEF FirstDef, D
<1> QED
  BY <1>1, <1>2

LEMMA DefsInStack == Seq(Defs) \subseteq Seq(Defs \cup {Mark})
BY SeqMonotonic

LEMMA HeadOpen ==
  ASSUME TypeOK
  PROVE  /\ Len(open) \in Nat \ {0} /\ DOMAIN open = 1..Len(open) /\ Head(open) = open[1]
         /\ \A i \in 1..Len(open) :
              /\ open[i] \in [ctx : 0..Len(plgOf), plg : Plugins \cup {Main}, defs : Seq(Defs)]
              /\ open[i].ctx \in 0..Len(plgOf) /\ open[i].plg \in Plugins \cup {Main}
              /\ open[i].defs \in Seq(Defs)
<1> DEFINE B == [ctx : 0..Len(plgOf), plg : Plugins \cup {Main}, defs : Seq(Defs)]
<1>1. open \in Seq(B) /\ open # <<>>
  BY DEF TypeOK
<1>2. Len(open) \in Nat \ {0} /\ DOMAIN open = 1..Len(open)
      /\ \A i \in 1..Len(open) : open[i] \in B
  BY <1>1, EmptySeq, LenProperties, ElementOfSeq
<1>3. Head(open) = open[1]
  BY <1>1
<1>4. \A b \in B : b.ctx \in 0..Len(plgOf) /\ b.plg \in Plugins \cup {Main} /\ b.defs \in Seq(Defs)
  OBVIOUS
<1> QED
  BY <1>2, <1>3, <1>4

LEMMA InTextIs ==
  ASSUME TypeOK, NEW name \in Names
  PROVE  InText(name) \in Defs \cup {NoDef}
<1> DEFINE in == {i \in DOMAIN open : DefsOf(open[i].defs, name) # {}}
<1>1. CASE in = {}
  BY <1>1 DEF InText
<1>2. CASE in # {}
  <2>1. Len(open) \in Nat /\ DOMAIN open = 1..Len(open)
        /\ \A i \in 1..Len(open) : open[i].defs \in Seq(Defs)
    BY HeadOpen
  <2>2. in \in SUBSET Nat
    BY <2>1
  <2>3. Min(in) \in DOMAIN open
    BY <1>2, <2>2, MinIn
  <2>4. open[Min(in)].defs \in Seq(Defs \cup {Mark})
    BY <2>1, <2>3, DefsInStack
  <2>5. InText(name) = FirstDef(open[Min(in)].defs, name)
    BY <1>2 DEF InText
  <2> QED
    BY <2>4, <2>5, FirstDefIs
<1> QED
  BY <1>1, <1>2

LEMMA TypeInit == Init => TypeOK
<1> SUFFICES ASSUME Init PROVE TypeOK
  OBVIOUS
<1>1. plgOf = <<Main>> /\ Len(plgOf) = 1 /\ plgOf \in Seq(Plugins \cup {Main}) /\ plgOf # <<>>
  BY DEF Init
<1>2. /\ nline \in 0..MaxLines /\ block \in Int /\ depth \in Nat /\ node \in BOOLEAN
      /\ bcData \in 0..Len(plgOf) /\ freed \in [1..(MaxLines + 1) -> Nat]
  <2>1. 0 \in 0..MaxLines /\ 0 \in 0..1 /\ 0 \in Nat
    BY ConfAssumption
  <2>2. freed \in [1..(MaxLines + 1) -> Nat]
    <3> DEFINE D == 1..(MaxLines + 1)
    <3> HIDE DEF D
    <3>1. freed = [c \in D |-> 0]
      BY DEF Init, D
    <3> QED
      BY <3>1 DEF D
  <2>3. nline = 0 /\ block = 0 /\ depth = 0 /\ node = FALSE /\ bcData = 0
    BY DEF Init, NULL
  <2>4. Len(plgOf) = 1
    BY <1>1
  <2>5. bcData \in 0..Len(plgOf)
    BY <2>1, <2>3, <2>4
  <2>6. node \in BOOLEAN
    BY DEF Init
  <2>7. nline \in 0..MaxLines /\ block \in Int /\ depth \in Nat
    BY <2>1, <2>3
  <2> QED
    BY <2>2, <2>5, <2>6, <2>7
<1>3. varStack \in Seq(Defs \cup {Mark}) /\ mcCtxs = <<>>
      /\ ctxRec \in Seq([parent : 0..Len(plgOf), ctx : 1..Len(plgOf)])
      /\ mcCtxs \in Seq([ctx : 1..Len(plgOf), parent : 0..Len(plgOf), within : 0..Len(plgOf)])
  BY EmptySeq DEF Init
<1>4. open \in Seq([ctx : 0..Len(plgOf), plg : Plugins \cup {Main}, defs : Seq(Defs)])
      /\ open # <<>>
  <2>1. File \in [ctx : 0..Len(plgOf), plg : Plugins \cup {Main}, defs : Seq(Defs)]
    BY <1>1, EmptySeq DEF File, NULL
  <2> QED
    BY <2>1 DEF Init
<1>5. call \in [plg : Plugins \cup {Main}, ctx : 0..Len(plgOf), want : 0..Len(plgOf)]
  BY <1>1 DEF Init, NoCall, NULL
<1> QED
  BY <1>1, <1>2, <1>3, <1>4, <1>5 DEF Init, TypeOK

(* Nothing but pc changes.                                                 *)
LEMMA StopTypes ==
  ASSUME TypeOK, NEW how \in {"abort", "crash", "norecord"}, Stop(how)
  PROVE  TypeOK'
BY DEF TypeOK, Stop, state

(* The contexts after an instruction: at most one more, whose plugin is    *)
(* that of the command.                                                    *)
CtxOf(cmd, g) ==
  IF cmd.kind = "block" THEN (IF cmd.plg = Main THEN First ELSE Len(plgOf) + 1) ELSE Curr(g)

LEMMA InsContexts ==
  ASSUME TypeOK, NEW cmd \in Cmds, NEW arg, NEW brace, NEW g \in Currs,
         InsRuns(cmd, arg, brace, g)
  PROVE  /\ plgOf' \in Seq(Plugins \cup {Main}) /\ plgOf' # <<>>
         /\ Len(plgOf) \in Nat /\ Len(plgOf') \in Nat /\ Len(plgOf) <= Len(plgOf')
         /\ CtxOf(cmd, g) \in 0..Len(plgOf')
         /\ cmd.kind = "block" => CtxOf(cmd, g) \in 1..Len(plgOf')
         /\ \A k \in 1..Len(plgOf) : plgOf'[k] = plgOf[k]
         /\ cmd.kind = "block" /\ cmd.plg # Main => plgOf'[CtxOf(cmd, g)] = cmd.plg
<1> DEFINE n == Len(plgOf)  ctx == CtxOf(cmd, g)
<1>1. n \in Nat /\ n >= 1 /\ plgOf \in Seq(Plugins \cup {Main})
  BY LenProperties, EmptySeq DEF TypeOK
<1>2. plgOf' = IF ctx > n THEN Append(plgOf, cmd.plg) ELSE plgOf
  BY DEF InsRuns, CtxOf
<1>3. Curr(g) \in 0..n
  BY CurrTypes
<1>4. ctx \in 0..(n + 1) /\ (ctx > n => cmd.kind = "block" /\ ctx = n + 1)
      /\ (cmd.kind = "block" => ctx >= 1)
      /\ (cmd.kind = "block" /\ cmd.plg # Main => ctx = n + 1)
  BY <1>1, <1>3 DEF CtxOf, First
<1> HIDE DEF ctx
<1>5. CASE ctx > n
  <2>1. cmd.plg \in Plugins \cup {Main} /\ plgOf' = Append(plgOf, cmd.plg)
    BY <1>2, <1>5, CmdTypes
  <2>2. /\ plgOf' \in Seq(Plugins \cup {Main}) /\ plgOf' # <<>> /\ Len(plgOf') = n + 1
        /\ \A i \in 1..n : plgOf'[i] = plgOf[i]
        /\ plgOf'[n + 1] = cmd.plg
    BY <1>1, <2>1, AppendProperties
  <2> HIDE DEF n
  <2> QED
    BY <1>1, <1>4, <1>5, <2>2 DEF n, ctx
<1>6. CASE ~ (ctx > n)
  <2>1. plgOf' = plgOf
    BY <1>2, <1>6
  <2> QED
    BY <1>1, <1>4, <1>6, <2>1, SMTT(30) DEF TypeOK, ctx
<1> QED
  BY <1>5, <1>6

(* More contexts: what held contexts still does.                           *)
LEMMA MoreContexts ==
  ASSUME TypeOK, NEW m \in Nat, Len(plgOf) <= m
  PROVE  /\ ctxRec \in Seq([parent : 0..m, ctx : 1..m])
         /\ mcCtxs \in Seq([ctx : 1..m, parent : 0..m, within : 0..m])
         /\ open \in Seq([ctx : 0..m, plg : Plugins \cup {Main}, defs : Seq(Defs)])
         /\ Len(plgOf) \in Nat
<1> DEFINE n == Len(plgOf)
<1>1. n \in Nat
  BY LenProperties DEF TypeOK
<1>2. 0..n \subseteq 0..m /\ 1..n \subseteq 1..m
  BY <1>1
<1>3. /\ [parent : 0..n, ctx : 1..n] \subseteq [parent : 0..m, ctx : 1..m]
      /\ [ctx : 1..n, parent : 0..n, within : 0..n]
         \subseteq [ctx : 1..m, parent : 0..m, within : 0..m]
      /\ [ctx : 0..n, plg : Plugins \cup {Main}, defs : Seq(Defs)]
         \subseteq [ctx : 0..m, plg : Plugins \cup {Main}, defs : Seq(Defs)]
  BY <1>2
<1> HIDE DEF n
<1>4. /\ ctxRec \in Seq([parent : 0..n, ctx : 1..n])
      /\ mcCtxs \in Seq([ctx : 1..n, parent : 0..n, within : 0..n])
      /\ open \in Seq([ctx : 0..n, plg : Plugins \cup {Main}, defs : Seq(Defs)])
  BY DEF TypeOK, n
<1>5. ctxRec \in Seq([parent : 0..m, ctx : 1..m])
  BY <1>3, <1>4, SeqMonotonic, Zenon
<1>6. mcCtxs \in Seq([ctx : 1..m, parent : 0..m, within : 0..m])
  BY <1>3, <1>4, SeqMonotonic, Zenon
<1>7. open \in Seq([ctx : 0..m, plg : Plugins \cup {Main}, defs : Seq(Defs)])
  BY <1>3, <1>4, SeqMonotonic, Zenon
<1> QED
  BY <1>1, <1>5, <1>6, <1>7 DEF n

(* The stack of variables after a push and a pop.                          *)
LEMMA VarStackTypes ==
  ASSUME TypeOK
  PROVE  VarBlockPush \in Seq(Defs \cup {Mark}) /\ VarBlockPop \in Seq(Defs \cup {Mark})
<1> DEFINE V == Defs \cup {Mark}
<1>1. varStack \in Seq(V) /\ <<>> \in Seq(V) /\ Mark \in V
  BY EmptySeq DEF TypeOK
<1> HIDE DEF V
<1>2. VarBlockPush \in Seq(V)
  BY <1>1, Prepend DEF VarBlockPush
<1>3. VarBlockPop \in Seq(V)
  <2>1. CASE Marks = {}
    BY <1>1, <2>1 DEF VarBlockPop
  <2>2. CASE Marks # {}
    <3>1. Len(varStack) \in Nat /\ DOMAIN varStack = 1..Len(varStack)
      BY <1>1, LenProperties
    <3>2. Marks \in SUBSET Nat /\ Marks \subseteq 1..Len(varStack)
      BY <3>1 DEF Marks
    <3>3. Min(Marks) \in 1..Len(varStack)
      BY <2>2, <3>2, MinIn
    <3>4. Min(Marks) + 1 \in 1..(Len(varStack) + 1)
      BY <3>1, <3>3
    <3> QED
      BY <1>1, <2>2, <3>4, Rest DEF VarBlockPop
  <2> QED
    BY <2>1, <2>2
<1> QED
  BY <1>2, <1>3 DEF V

(* What plm_ctx_register leaves.                                           *)
LEMMA RegisterTypes ==
  ASSUME TypeOK, NEW plg, NEW m \in Nat, Len(plgOf) <= m, NEW parent \in 0..m, NEW c \in 1..m,
         LevelFound(parent), CtxRegister(plg, parent, c)
  PROVE  /\ ctxRec' \in Seq([parent : 0..m, ctx : 1..m])
         /\ mcCtxs' \in Seq([ctx : 1..m, parent : 0..m, within : 0..m])
         /\ inited' = TRUE
<1> DEFINE R == [parent : 0..m, ctx : 1..m]
           C == [ctx : 1..m, parent : 0..m, within : 0..m]
<1>1. ctxRec \in Seq(R) /\ mcCtxs \in Seq(C)
  BY MoreContexts
<1>2. CASE ~inited
  BY <1>1, <1>2 DEF CtxRegister
<1>3. CASE inited
  <2>1. /\ ctxRec' = RecordPush(parent, c) /\ UNCHANGED inited
        /\ mcCtxs' = <<[ctx |-> c, parent |-> parent, within |-> Head(open).ctx]>> \o mcCtxs
    BY <1>3 DEF CtxRegister
  <2>2. [ctx |-> c, parent |-> parent, within |-> Head(open).ctx] \in C
    <3>1. Head(open).ctx \in 0..m
      BY HeadOpen, MoreContexts
    <3> QED
      BY <3>1
  <2>3. [parent |-> parent, ctx |-> c] \in R
    OBVIOUS
  <2> DEFINE r == [parent |-> parent, ctx |-> c]
             d == [ctx |-> c, parent |-> parent, within |-> Head(open).ctx]
  <2> HIDE DEF R, C, r, d
  <2>4. mcCtxs' \in Seq(C)
    BY <1>1, <2>1, <2>2, Prepend DEF d
  <2>5. CASE ctxRec = <<>>
    <3>1. RecordPush(parent, c) = <<r>>
      BY <2>5 DEF RecordPush, r
    <3>2. <<r>> \in Seq(R)
      BY <2>3 DEF r
    <3> QED
      BY <1>3, <2>1, <2>4, <3>1, <3>2 DEF R, C
  <2>6. CASE ctxRec # <<>>
    <3> DEFINE at == Min(Levels(parent))  n == Len(ctxRec)
    <3>1. n \in Nat /\ DOMAIN ctxRec = 1..n
      BY <1>1, LenProperties
    <3>2. Levels(parent) # {} /\ Levels(parent) \subseteq 1..n
      BY <1>3, <2>6, <3>1 DEF LevelFound, Levels
    <3>3. Levels(parent) \in SUBSET Nat
      BY <3>1, <3>2
    <3>4. at \in 1..n
      BY <3>2, <3>3, MinIn
    <3>5. at \in 1..(n + 1) /\ at + 1 \in 1..(n + 1)
      BY <3>1, <3>4
    <3>6. SubSeq(ctxRec, at, n) \in Seq(R) /\ SubSeq(ctxRec, at + 1, n) \in Seq(R)
      BY <1>1, <3>5, Rest
    <3>7. \/ RecordPush(parent, c) = <<r>> \o SubSeq(ctxRec, at, n)
          \/ RecordPush(parent, c) = <<r>> \o SubSeq(ctxRec, at + 1, n)
      BY <2>6 DEF RecordPush, r
    <3> HIDE DEF at, n
    <3>8. RecordPush(parent, c) \in Seq(R)
      <4>1. r \in R
        BY <2>3 DEF r
      <4>2. \A x \in Seq(R) : <<r>> \o x \in Seq(R)
        BY <4>1, Prepend, Zenon
      <4> QED
        BY <3>6, <3>7, <4>2, Zenon
    <3> QED
      BY <1>3, <2>1, <2>4, <3>8 DEF R, C
  <2> QED
    BY <2>5, <2>6
<1> QED
  BY <1>2, <1>3 DEF TypeOK

LEMMA InsTypes ==
  ASSUME TypeOK, NEW cmd \in Cmds, NEW arg \in Names \cup {Lit}, NEW g \in Currs,
         NEW brace \in BracesOf(cmd), ReadIns(cmd, arg, brace, g)
  PROVE  TypeOK'
<1>1. CASE \E how \in {"abort", "crash", "norecord"} : Stop(how)
  BY <1>1, StopTypes
<1>2. CASE /\ InsWorks(cmd, arg, g) /\ nline' = nline + 1 /\ InsRuns(cmd, arg, brace, g)
           /\ UNCHANGED <<pc, freed>>
  <2> DEFINE m == Len(plgOf')  ctx == CtxOf(cmd, g)
  <2>1. /\ plgOf' \in Seq(Plugins \cup {Main}) /\ plgOf' # <<>>
        /\ m \in Nat /\ Len(plgOf) <= m /\ ctx \in 0..m
        /\ cmd.kind = "block" => ctx \in 1..m
    BY <1>2, InsContexts
  <2> HIDE DEF m
  <2>2. /\ ctxRec \in Seq([parent : 0..m, ctx : 1..m])
        /\ mcCtxs \in Seq([ctx : 1..m, parent : 0..m, within : 0..m])
        /\ open \in Seq([ctx : 0..m, plg : Plugins \cup {Main}, defs : Seq(Defs)])
        /\ Len(plgOf) \in Nat
    BY <2>1, MoreContexts
  <2>3. Curr(g) \in 0..m
    BY <2>1, <2>2, CurrTypes
  <2>4. /\ ctxRec' \in Seq([parent : 0..m, ctx : 1..m])
        /\ mcCtxs' \in Seq([ctx : 1..m, parent : 0..m, within : 0..m])
        /\ inited' \in BOOLEAN /\ (inited' = FALSE => mcCtxs' = <<>>)
    <3>1. CASE cmd.kind = "block"
      <4>1. CtxRegister(cmd.plg, Curr(g), ctx) /\ LevelFound(Curr(g))
        BY <1>2, <3>1 DEF InsRuns, InsWorks, CtxOf
      <4> QED
        BY <2>1, <2>3, <3>1, <4>1, RegisterTypes
    <3>2. CASE cmd.kind # "block"
      <4>1. UNCHANGED <<inited, ctxRec, mcCtxs>>
        BY <1>2, <3>2 DEF InsRuns
      <4> QED
        BY <2>2, <4>1 DEF TypeOK
    <3> QED
      BY <3>1, <3>2
  <2>5. cmd.kind \in {"block", "set", "load"} /\ cmd.plg \in Plugins \cup {Main}
        /\ (cmd.kind = "load" => cmd.plg \in Plugins)
    BY CmdTypes
  <2>6. Head(open).ctx \in 0..m
    <3>1. Head(open).ctx \in 0..Len(plgOf)
      BY HeadOpen
    <3> QED
      BY <2>1, <2>2, <3>1
  <2>7. /\ loaded' \subseteq Plugins
        /\ call' \in [plg : Plugins \cup {Main}, ctx : 0..m, want : 0..m]
    <3>1. SetCmd(cmd, ctx, Head(open).ctx)
      BY <1>2 DEF InsRuns, CtxOf
    <3>2. 0 \in 0..m
      BY <2>1
    <3> HIDE DEF ctx
    <3>3. NoCall \in [plg : Plugins \cup {Main}, ctx : 0..m, want : 0..m]
      BY <3>2 DEF NoCall, NULL
    <3>4. call' \in [plg : Plugins \cup {Main}, ctx : 0..m, want : 0..m]
      BY <2>1, <2>5, <2>6, <3>1, <3>3 DEF SetCmd
    <3>5. loaded' \subseteq Plugins
      BY <2>5, <3>1 DEF SetCmd, TypeOK
    <3> QED
      BY <3>4, <3>5
  <2>8. /\ bcData' = ctx /\ node' = TRUE /\ cl' = cmd
        /\ tops' \in Nat
    BY <1>2 DEF InsRuns, CtxOf, TypeOK
  <2>9. block' \in Int /\ depth' \in Nat /\ varStack' \in Seq(Defs \cup {Mark})
    <3>1. varStack \in Seq(Defs \cup {Mark})
      BY Zenon DEF TypeOK
    <3> QED
      BY <1>2, <3>1, Scalars, VarStackTypes, SMTT(30) DEF InsRuns, BlockBeg
  <2>10. /\ open' \in Seq([ctx : 0..m, plg : Plugins \cup {Main}, defs : Seq(Defs)])
         /\ open' # <<>>
    <3> DEFINE B == [ctx : 0..m, plg : Plugins \cup {Main}, defs : Seq(Defs)]
               b == [ctx |-> ctx, plg |-> cmd.plg, defs |-> <<>>]
    <3>1. <<>> \in Seq(Defs)
      BY EmptySeq
    <3>2. b \in B
      BY <2>1, <2>5, <3>1
    <3>3. open' = open \/ open' = <<b>> \o open
      BY <1>2 DEF InsRuns, CtxOf
    <3>4. open \in Seq(B) /\ open # <<>>
      BY <2>2 DEF TypeOK
    <3> HIDE DEF B, b
    <3>5. <<b>> \o open \in Seq(B) /\ <<b>> \o open # <<>>
      BY <3>2, <3>4, Prepend, Zenon
    <3>6. open' \in Seq(B) /\ open' # <<>>
      BY <3>3, <3>4, <3>5, Zenon
    <3> QED
      BY <3>6 DEF B
  <2>11. nline' \in 0..MaxLines /\ UNCHANGED <<pc, freed>>
    BY <1>2, Scalars DEF ReadIns
  <2> HIDE DEF ctx
  <2>12. ctx \in 0..m
    BY <2>1
  <2> QED
    BY <2>1, <2>4, <2>7, <2>8, <2>9, <2>10, <2>11, <2>12 DEF TypeOK, m
<1> QED
  BY <1>1, <1>2 DEF ReadIns

LEMMA CloseTypes ==
  ASSUME TypeOK, NEW brace \in Braces, NEW g \in Currs, NEW h \in Garbage,
         ReadClose(brace, g, h)
  PROVE  TypeOK'
<1>1. CASE \E how \in {"abort", "crash"} : Stop(how)
  BY <1>1, StopTypes
<1>2. CASE ~ \E how \in {"abort", "crash"} : Stop(how)
  <2>1. /\ cl # NoCmd /\ nline' = nline + 1 /\ nline < MaxLines
        /\ SetCmd(cl, Curr(g), Head(open).ctx)
        /\ IF brace = "yes"
           THEN BlockEnd(Curr(g))
           ELSE /\ bcData' = Curr(g) /\ node' = TRUE
                /\ UNCHANGED <<block, depth, varStack>>
        /\ open' = IF Len(open) > 1 THEN Tail(open) ELSE open
        /\ UNCHANGED <<pc, cl, plgOf, inited, ctxRec, mcCtxs, freed, tops>>
    BY <1>2 DEF ReadClose
  <2>2. Curr(g) \in 0..Len(plgOf) /\ Head(open).ctx \in 0..Len(plgOf)
    BY CurrTypes, HeadOpen
  <2>3. cl.plg \in Plugins \cup {Main} /\ (cl.kind = "load" => cl.plg \in Plugins)
    BY <2>1, CmdTypes DEF TypeOK
  <2>4. loaded' \subseteq Plugins
        /\ call' \in [plg : Plugins \cup {Main}, ctx : 0..Len(plgOf), want : 0..Len(plgOf)]
    <3>1. 0 \in 0..Len(plgOf)
      BY LenProperties DEF TypeOK
    <3>2. NoCall \in [plg : Plugins \cup {Main}, ctx : 0..Len(plgOf), want : 0..Len(plgOf)]
      BY <3>1 DEF NoCall, NULL
    <3>3. call' \in [plg : Plugins \cup {Main}, ctx : 0..Len(plgOf), want : 0..Len(plgOf)]
      BY <2>1, <2>2, <2>3, <3>2 DEF SetCmd
    <3>4. loaded' \subseteq Plugins
      BY <2>1, <2>3 DEF SetCmd, TypeOK
    <3> QED
      BY <3>3, <3>4
  <2>5. depth' \in Nat /\ block' \in Int
    BY <2>1, Scalars DEF BlockEnd
  <2>6. bcData' = Curr(g) /\ node' \in BOOLEAN /\ varStack' \in Seq(Defs \cup {Mark})
    <3>1. varStack \in Seq(Defs \cup {Mark})
      BY Zenon DEF TypeOK
    <3>2. bcData' = Curr(g)
      BY <2>1 DEF BlockEnd
    <3>3. varStack' \in Seq(Defs \cup {Mark})
      BY <2>1, <3>1, VarStackTypes, Zenon DEF BlockEnd
    <3>4. node' = TRUE \/ node' = (depth' > 0)
      BY <2>1, Zenon DEF BlockEnd
    <3>5. node' = TRUE \/ node' = FALSE
      <4>1. CASE depth' > 0
        BY <3>4, <4>1
      <4>2. CASE ~ (depth' > 0)
        BY <3>4, <4>2
      <4> QED
        BY <4>1, <4>2
    <3>6. node' \in BOOLEAN
      BY <3>5
    <3> QED
      BY <3>2, <3>3, <3>6
  <2>7. /\ open' \in Seq([ctx : 0..Len(plgOf), plg : Plugins \cup {Main}, defs : Seq(Defs)])
        /\ open' # <<>>
    <3> DEFINE B == [ctx : 0..Len(plgOf), plg : Plugins \cup {Main}, defs : Seq(Defs)]
    <3>1. open \in Seq(B) /\ open # <<>>
      BY DEF TypeOK
    <3> HIDE DEF B
    <3>2. Tail(open) \in Seq(B) /\ Len(Tail(open)) = Len(open) - 1 /\ Len(open) \in Nat
      BY <3>1, HeadTailProperties, LenProperties
    <3>3. Len(open) > 1 => Tail(open) # <<>>
      <4>1. Tail(open) = <<>> => Len(Tail(open)) = 0
        BY EmptySeq
      <4> QED
        BY <3>2, <4>1
    <3>4. open' \in Seq(B) /\ open' # <<>>
      BY <2>1, <3>1, <3>2, <3>3
    <3> QED
      BY <3>4 DEF B
  <2>8. nline' \in 0..MaxLines
    BY <2>1, Scalars
  <2> QED
    BY <2>1, <2>2, <2>4, <2>5, <2>6, <2>7, <2>8 DEF TypeOK
<1> QED
  BY <1>1, <1>2

(* The element that a definition pushes.                                   *)
Elem(name, from) ==
  [name |-> name, line |-> nline + 1,
   val  |-> IF from = Lit THEN nline + 1 ELSE GetVarValue(name).val,
   want |-> IF from = Lit THEN nline + 1 ELSE InText(from).val]

Defined(name, from, g) ==
  /\ g \in {"node", "stale"} /\ nline < MaxLines /\ nline' = nline + 1
  /\ Elem(name, from) \in Defs
  /\ varStack' = <<Elem(name, from)>> \o varStack
  /\ open' = [open EXCEPT ![1].defs = <<Elem(name, from)>> \o @]
  /\ call' = NoCall /\ seen' = <<NoDef, NoDef>>
  /\ UNCHANGED <<pc, block, node, bcData, depth, cl, loaded, plgOf, inited, ctxRec, mcCtxs,
                 freed, tops>>

LEMMA DefineIs ==
  ASSUME TypeOK, NEW name \in Names, NEW from \in Names \cup {Lit}, NEW g \in Currs,
         ReadDefine(name, from, g)
  PROVE  Stop("crash") \/ Stop("abort") \/ Defined(name, from, g)
<1>1. CASE Stop("crash") \/ Stop("abort")
  BY <1>1
<1>2. CASE ~ (Stop("crash") \/ Stop("abort"))
  <2>1. /\ g \in {"node", "stale"} /\ nline < MaxLines /\ nline' = nline + 1
        /\ from = Lit \/ GetVarValue(name) # NoDef
        /\ varStack' = <<Elem(name, from)>> \o varStack
        /\ open' = [open EXCEPT ![1].defs = <<Elem(name, from)>> \o @]
        /\ call' = NoCall /\ seen' = <<NoDef, NoDef>>
        /\ UNCHANGED <<pc, block, node, bcData, depth, cl, loaded, plgOf, inited, ctxRec,
                       mcCtxs, freed, tops>>
    BY <1>2 DEF ReadDefine, LinkedTo, Elem
  <2>2. nline + 1 \in 1..MaxLines /\ nline + 1 \in 0..MaxLines
    BY <2>1, Scalars
  <2>3. from # Lit => GetVarValue(name).val \in 1..MaxLines
    <3>1. GetVarValue(name) = NoDef \/ GetVarValue(name) \in Defs
      BY FirstDefIs DEF GetVarValue, TypeOK
    <3> QED
      BY <2>1, <3>1 DEF Defs
  <2>4. from # Lit => InText(from).val \in 0..MaxLines
    <3>1. from # Lit => InText(from) \in Defs \cup {NoDef}
      BY InTextIs
    <3>2. \A d \in Defs : d.val \in 0..MaxLines
      BY ConfAssumption DEF Defs
    <3>3. NoDef.val \in 0..MaxLines
      BY ConfAssumption DEF NoDef
    <3> QED
      BY <3>1, <3>2, <3>3
  <2>5. Elem(name, from) \in Defs
    BY <2>2, <2>3, <2>4 DEF Elem, Defs
  <2> QED
    BY <2>1, <2>5 DEF Defined
<1> QED
  BY <1>1, <1>2

(* The block that is open has one definition more, the others are as they  *)
(* were.                                                                   *)
LEMMA OpenDefined ==
  ASSUME TypeOK, NEW e \in Defs, open' = [open EXCEPT ![1].defs = <<e>> \o @]
  PROVE  /\ open' \in Seq([ctx : 0..Len(plgOf), plg : Plugins \cup {Main}, defs : Seq(Defs)])
         /\ Len(open') = Len(open) /\ open' # <<>>
         /\ open'[1].ctx = open[1].ctx /\ open'[1].plg = open[1].plg
         /\ open'[1].defs = <<e>> \o open[1].defs
         /\ \A i \in 2..Len(open) : open'[i] = open[i]
<1> DEFINE B == [ctx : 0..Len(plgOf), plg : Plugins \cup {Main}, defs : Seq(Defs)]
           b == [open[1] EXCEPT !.defs = <<e>> \o @]
<1>1. open \in Seq(B) /\ Len(open) \in Nat \ {0} /\ open[1] \in B
      /\ open[1].defs \in Seq(Defs) /\ DOMAIN open = 1..Len(open)
  <2>1. open \in Seq(B)
    BY Zenon DEF TypeOK
  <2> QED
    BY <2>1, HeadOpen
<1>2. <<e>> \o open[1].defs \in Seq(Defs)
  BY <1>1, Prepend
<1>3. b \in B /\ b.ctx = open[1].ctx /\ b.plg = open[1].plg /\ b.defs = <<e>> \o open[1].defs
  BY <1>1, <1>2
<1>4. open' = [open EXCEPT ![1] = b]
  OBVIOUS
<1> HIDE DEF b, B
<1>5. 1 \in 1..Len(open)
  BY <1>1
<1>6. /\ [open EXCEPT ![1] = b] \in Seq(B)
      /\ Len([open EXCEPT ![1] = b]) = Len(open)
      /\ \A j \in 1 .. Len(open) : [open EXCEPT ![1] = b][j] = IF j = 1 THEN b ELSE open[j]
  BY <1>1, <1>3, <1>5, ExceptSeq
<1>7. /\ open' \in Seq(B) /\ Len(open') = Len(open) /\ open'[1] = b
      /\ \A i \in 2..Len(open) : open'[i] = open[i]
  <2> DEFINE new == [open EXCEPT ![1] = b]  n == Len(open)
  <2>1. /\ new \in Seq(B) /\ Len(new) = n /\ n \in Nat \ {0}
        /\ \A j \in 1 .. n : new[j] = IF j = 1 THEN b ELSE open[j]
        /\ open' = new
    BY <1>1, <1>4, <1>6
  <2> HIDE DEF new, n
  <2>2. new[1] = b /\ \A i \in 2..n : new[i] = open[i]
    BY <2>1
  <2> QED
    BY <2>1, <2>2 DEF n
<1>8. open' # <<>>
  BY <1>1, <1>7, EmptySeq
<1> QED
  BY <1>3, <1>7, <1>8 DEF B

LEMMA DefineTypes ==
  ASSUME TypeOK, NEW name \in Names, NEW from \in Names \cup {Lit}, NEW g \in Currs,
         ReadDefine(name, from, g)
  PROVE  TypeOK'
<1>1. CASE Stop("crash") \/ Stop("abort")
  BY <1>1, StopTypes
<1>2. CASE Defined(name, from, g)
  <2> DEFINE e == Elem(name, from)
  <2>1. e \in Defs /\ varStack' = <<e>> \o varStack
        /\ open' = [open EXCEPT ![1].defs = <<e>> \o @]
    BY <1>2 DEF Defined
  <2> HIDE DEF e
  <2>2. varStack' \in Seq(Defs \cup {Mark})
    <3> DEFINE V == Defs \cup {Mark}
    <3>1. e \in V /\ varStack \in Seq(V)
      BY <2>1 DEF TypeOK
    <3> HIDE DEF V
    <3>2. varStack' \in Seq(V)
      BY <2>1, <3>1, Prepend
    <3> QED
      BY <3>2 DEF V
  <2>3. /\ open' \in Seq([ctx : 0..Len(plgOf), plg : Plugins \cup {Main}, defs : Seq(Defs)])
        /\ open' # <<>>
    BY <2>1, OpenDefined
  <2>4. nline' \in 0..MaxLines
    BY <1>2, Scalars DEF Defined
  <2>5. call' \in [plg : Plugins \cup {Main}, ctx : 0..Len(plgOf), want : 0..Len(plgOf)]
    <3>1. 0 \in 0..Len(plgOf)
      BY LenProperties DEF TypeOK
    <3> QED
      BY <1>2, <3>1 DEF Defined, NoCall, NULL
  <2> QED
    BY <1>2, <2>2, <2>3, <2>4, <2>5 DEF Defined, TypeOK
<1> QED
  BY <1>1, <1>2, DefineIs

LEMMA DestroyTypes ==
  ASSUME TypeOK, NEW g \in Garbage, CtxDestroy(g)
  PROVE  TypeOK'
<1>1. \A c : Cardinality({i \in Visited(g) : mcCtxs[i].ctx = c}) \in Nat
  <2> TAKE c
  <2>1. Len(mcCtxs) \in Nat /\ DOMAIN mcCtxs = 1..Len(mcCtxs)
    BY LenProperties DEF TypeOK
  <2>2. IsFiniteSet(1..Len(mcCtxs)) /\ IsFiniteSet({1})
    <3>1. 1 \in Int /\ Len(mcCtxs) \in Int
      BY <2>1
    <3> QED
      BY <3>1, FS_Interval, FS_Singleton, Zenon
  <2>3. IsFiniteSet(Visited(g))
    BY <2>1, <2>2 DEF Visited
  <2>4. IsFiniteSet({i \in Visited(g) : mcCtxs[i].ctx = c})
    BY <2>3, FS_Subset
  <2> QED
    BY <2>4, FS_CardinalityType
<1>2. freed' \in [1..(MaxLines + 1) -> Nat]
  <2>1. CASE UNCHANGED freed
    BY <2>1 DEF TypeOK
  <2>2. CASE freed' = [c \in DOMAIN freed |->
                          freed[c] + Cardinality({i \in Visited(g) : mcCtxs[i].ctx = c})
                                   + (IF c = First THEN 1 ELSE 0)]
    <3>1. DOMAIN freed = 1..(MaxLines + 1) /\ \A c \in DOMAIN freed : freed[c] \in Nat
      BY DEF TypeOK
    <3>2. \A c \in DOMAIN freed :
            freed[c] + Cardinality({i \in Visited(g) : mcCtxs[i].ctx = c})
                     + (IF c = First THEN 1 ELSE 0) \in Nat
      <4> TAKE c \in DOMAIN freed
      <4> DEFINE k == Cardinality({i \in Visited(g) : mcCtxs[i].ctx = c})
                 a == freed[c]  b == IF c = First THEN 1 ELSE 0
      <4>1. k \in Nat /\ a \in Nat /\ b \in Nat
        BY <1>1, <3>1
      <4> HIDE DEF k, a, b
      <4>2. a + k + b \in Nat
        BY <4>1
      <4> QED
        BY <4>2 DEF a, k, b
    <3> QED
      BY <2>2, <3>1, <3>2
  <2> QED
    BY <2>1, <2>2 DEF CtxDestroy
<1>3. pc' \in {"crash", "gone"} /\ UNCHANGED <<nline, state, open, tops, call, seen>>
  BY DEF CtxDestroy
<1> QED
  BY <1>2, <1>3 DEF TypeOK, state

LEMMA TypeStep ==
  ASSUME TypeOK, [Next]_vars
  PROVE  TypeOK'
<1>1. ASSUME Eof PROVE TypeOK'
  <2>1. /\ pc' \in {"abort", "loaded"} /\ call' = NoCall
        /\ UNCHANGED <<nline, state, freed, open, tops, seen>>
    BY <1>1 DEF Eof
  <2>2. 0 \in 0..Len(plgOf)
    BY LenProperties DEF TypeOK
  <2>3. NoCall \in [plg : Plugins \cup {Main}, ctx : 0..Len(plgOf), want : 0..Len(plgOf)]
    BY <2>2 DEF NoCall, NULL
  <2> QED
    BY <2>1, <2>3 DEF TypeOK, state
<1>2. ASSUME UNCHANGED vars PROVE TypeOK'
  BY <1>2 DEF vars, state, TypeOK
<1> QED
  BY <1>1, <1>2, InsTypes, CloseTypes, DefineTypes, DestroyTypes DEF Next, Terminated

(* The loader's structures keep their shapes, whatever the file looks like *)
(* and whatever uninitialised memory holds: every context that a block,    *)
(* a record or a list names is one that a plugin has created.              *)
THEOREM TypeCorrect == Spec => []TypeOK
<1>1. TypeOK /\ [Next]_vars => TypeOK'
  BY TypeStep
<1> QED
  BY <1>1, TypeInit, PTL DEF Spec

-----------------------------------------------------------------------------
(* Files whose braces are all seen and close something: what a step does,  *)
(* as far as the invariants below tell.                                    *)

Tidy == Braces = {"yes"} /\ Strays = FALSE

(* A block is opened.                                                      *)
Opened(cmd, g) ==
  /\ cmd.kind = "block" /\ Written(cmd)
  /\ block' = block + 1 /\ depth' = depth + 1 /\ varStack' = VarBlockPush
  /\ node' = TRUE /\ bcData' = CtxOf(cmd, g) /\ CtxOf(cmd, g) \in 1..Len(plgOf')
  /\ plgOf'[CtxOf(cmd, g)] = cmd.plg \/ cmd.plg = Main
  /\ open' = <<[ctx |-> CtxOf(cmd, g), plg |-> cmd.plg, defs |-> <<>>]>> \o open
  /\ tops' = IF Len(open) = 1 THEN tops + 1 ELSE tops
  /\ cl' = cmd /\ call' = NoCall /\ seen' = <<NoDef, NoDef>>

(* An instruction that opens none is run, inside a block.                  *)
Ran(cmd, arg) ==
  /\ cmd.kind # "block" /\ Written(cmd) /\ block > 0
  /\ SetCmd(cmd, bcData, Head(open).ctx) /\ cl' = cmd
  /\ seen' = IF arg = Lit THEN <<NoDef, NoDef>> ELSE <<GetVarValue(arg), InText(arg)>>
  /\ UNCHANGED <<block, depth, node, bcData, varStack, open, plgOf, tops>>

(* A block is closed, and the last command run once more.                  *)
Closed ==
  /\ block > 0 /\ cl # NoCmd
  /\ BlockEnd(bcData) /\ open' = Tail(open)
  /\ SetCmd(cl, bcData, Head(open).ctx) /\ seen' = <<NoDef, NoDef>>
  /\ UNCHANGED <<cl, plgOf, tops>>

Kept ==
  /\ call' = call \/ call' = NoCall
  /\ UNCHANGED <<block, depth, node, bcData, varStack, open, plgOf, tops, cl, seen>>

LEMMA StopKeeps == ASSUME NEW how, Stop(how) PROVE Kept
BY DEF Stop, state, Kept

LEMMA OpenInside ==
  ASSUME TypeOK, Blocks
  PROVE  /\ Len(open) = block + 1 /\ block \in Nat /\ Head(open) = open[1]
         /\ Head(open).ctx # NULL <=> block > 0
BY HeadOpen DEF Blocks

LEMMA InsIs ==
  ASSUME Tidy, TypeOK, Blocks, NEW cmd \in Cmds, NEW arg \in Names \cup {Lit}, NEW g \in Currs,
         NEW brace \in BracesOf(cmd), ReadIns(cmd, arg, brace, g)
  PROVE  Kept \/ Opened(cmd, g) \/ Ran(cmd, arg)
<1>1. CASE \E how \in {"abort", "crash", "norecord"} : Stop(how)
  BY <1>1, StopKeeps
<1>2. CASE /\ InsWorks(cmd, arg, g) /\ nline' = nline + 1 /\ InsRuns(cmd, arg, brace, g)
           /\ UNCHANGED <<pc, freed>>
  <2>1. Written(cmd) /\ (arg # Lit => cmd.kind = "set")
    BY DEF ReadIns
  <2>2. cmd.kind \in {"block", "set", "load"}
    BY CmdTypes
  <2>3. /\ SetCmd(cmd, CtxOf(cmd, g), Head(open).ctx)
        /\ seen' = IF arg = Lit THEN <<NoDef, NoDef>> ELSE <<GetVarValue(arg), InText(arg)>>
        /\ bcData' = CtxOf(cmd, g) /\ node' = TRUE /\ cl' = cmd
        /\ IF brace = "yes" THEN BlockBeg ELSE UNCHANGED <<block, depth, varStack>>
        /\ tops' = IF cmd.kind = "block" /\ Len(open) = 1 THEN tops + 1 ELSE tops
        /\ open' = IF brace = "no" THEN open
                   ELSE <<[ctx |-> CtxOf(cmd, g), plg |-> cmd.plg, defs |-> <<>>]>> \o open
        /\ plgOf' = IF CtxOf(cmd, g) > Len(plgOf) THEN Append(plgOf, cmd.plg) ELSE plgOf
    BY <1>2 DEF InsRuns, CtxOf
  <2>4. CASE cmd.kind = "block"
    <3>1. brace = "yes" /\ brace # "no" /\ arg = Lit
      BY <2>1, <2>4 DEF BracesOf, Tidy
    <3>2. CtxOf(cmd, g) \in 1..Len(plgOf') /\ (cmd.plg # Main => plgOf'[CtxOf(cmd, g)] = cmd.plg)
      BY <1>2, <2>4, InsContexts
    <3>3. call' = NoCall
      BY <2>3, <2>4 DEF SetCmd
    <3> QED
      BY <2>1, <2>3, <2>4, <3>1, <3>2, <3>3 DEF Opened, BlockBeg
  <2>5. CASE cmd.kind # "block"
    <3>1. brace = "no"
      BY <2>5 DEF BracesOf
    <3>2. Head(open).ctx # NULL
      <4>1. First # NULL
        BY DEF First, NULL
      <4>2. CASE cmd.kind = "load"
        BY <2>1, <4>1, <4>2 DEF Written
      <4>3. CASE cmd.kind = "set"
        BY <2>1, <4>3 DEF Written
      <4> QED
        BY <2>2, <2>5, <4>2, <4>3
    <3>3. block > 0 /\ node /\ Curr(g) = bcData /\ bcData \in 0..Len(plgOf)
      <4>1. block > 0
        BY <3>2, OpenInside
      <4>2. node
        BY <4>1 DEF Blocks
      <4> QED
        BY <4>1, <4>2, CurrTypes
    <3>4. CtxOf(cmd, g) = bcData /\ ~ (bcData > Len(plgOf))
      BY <2>5, <3>3, Scalars DEF CtxOf
    <3>5. UNCHANGED <<block, depth, node, bcData, varStack, open, plgOf, tops>>
      <4>1. node' = node
        BY <2>3, <3>3 DEF TypeOK
      <4> QED
        BY <2>3, <2>5, <3>1, <3>4, <4>1
    <3> QED
      BY <2>1, <2>3, <2>5, <3>3, <3>4, <3>5 DEF Ran
  <2> QED
    BY <2>4, <2>5
<1> QED
  BY <1>1, <1>2 DEF ReadIns

LEMMA CloseIs ==
  ASSUME Tidy, TypeOK, Blocks, NEW brace \in Braces, NEW g \in Currs, NEW h \in Garbage,
         ReadClose(brace, g, h)
  PROVE  Kept \/ Closed
<1>1. CASE \E how \in {"abort", "crash"} : Stop(how)
  BY <1>1, StopKeeps
<1>2. CASE ~ \E how \in {"abort", "crash"} : Stop(how)
  <2>1. /\ cl # NoCmd /\ Len(open) > 1
        /\ SetCmd(cl, Curr(g), Head(open).ctx)
        /\ IF brace = "yes"
           THEN BlockEnd(Curr(g))
           ELSE /\ bcData' = Curr(g) /\ node' = TRUE
                /\ UNCHANGED <<block, depth, varStack>>
        /\ open' = IF Len(open) > 1 THEN Tail(open) ELSE open
        /\ seen' = <<NoDef, NoDef>>
        /\ UNCHANGED <<cl, plgOf, tops>>
    BY <1>2 DEF ReadClose, Tidy
  <2>2. brace = "yes"
    BY DEF Tidy
  <2>3. block > 0 /\ node
    BY <2>1, OpenInside DEF Blocks
  <2>4. Curr(g) = bcData
    BY <2>3, CurrTypes
  <2> QED
    BY <2>1, <2>2, <2>3, <2>4 DEF Closed
<1> QED
  BY <1>1, <1>2

LEMMA StepIs ==
  ASSUME Tidy, TypeOK, Blocks, [Next]_vars
  PROVE  \/ Kept \/ Closed
         \/ \E cmd \in Cmds, g \in Currs : Opened(cmd, g)
         \/ \E cmd \in Cmds, arg \in Names \cup {Lit} : Ran(cmd, arg)
         \/ \E name \in Names, from \in Names \cup {Lit}, g \in Currs : Defined(name, from, g)
<1>1. ASSUME Eof \/ (\E g \in Garbage : CtxDestroy(g)) \/ Terminated \/ UNCHANGED vars
      PROVE  Kept
  BY <1>1 DEF Eof, CtxDestroy, Terminated, vars, state, Kept
<1>2. ASSUME NEW name \in Names, NEW from \in Names \cup {Lit}, NEW g \in Currs,
             ReadDefine(name, from, g)
      PROVE  Kept \/ Defined(name, from, g)
  BY <1>2, DefineIs, StopKeeps
<1> QED
  BY <1>1, <1>2, InsIs, CloseIs DEF Next

-----------------------------------------------------------------------------
(* The count of blocks, the stack of contexts and the blocks of the text.  *)

LEMMA PushOpen ==
  ASSUME TypeOK, NEW b
  PROVE  /\ Len(<<b>> \o open) = Len(open) + 1 /\ (<<b>> \o open)[1] = b
         /\ \A i \in 1..Len(open) : (<<b>> \o open)[i + 1] = open[i]
<1> DEFINE B == [ctx : 0..Len(plgOf), plg : Plugins \cup {Main}, defs : Seq(Defs)]
           U == B \cup {b}
<1>1. open \in Seq(B) /\ B \subseteq U /\ b \in U
  BY DEF TypeOK
<1> HIDE DEF U, B
<1>2. open \in Seq(U)
  BY <1>1, SeqMonotonic
<1> QED
  BY <1>1, <1>2, Prepend

LEMMA BlocksInit == Init => Blocks
<1> SUFFICES ASSUME Init PROVE Blocks
  OBVIOUS
<1>1. open = <<File>> /\ Len(open) = 1 /\ open[1] = File /\ File.ctx = NULL
  BY DEF Init, File
<1> QED
  BY <1>1 DEF Init, Blocks

LEMMA BlocksStep ==
  ASSUME Tidy, TypeOK, Blocks, [Next]_vars
  PROVE  Blocks'
<1> DEFINE B == [ctx : 0..Len(plgOf), plg : Plugins \cup {Main}, defs : Seq(Defs)]
<1>1. /\ block \in Nat /\ depth = block /\ Len(open) = block + 1
      /\ open[block + 1].ctx = NULL /\ \A i \in 1..block : open[i].ctx # NULL
  BY DEF Blocks
<1>2. ASSUME NEW cmd \in Cmds, NEW g \in Currs, Opened(cmd, g) PROVE Blocks'
  <2> DEFINE b == [ctx |-> CtxOf(cmd, g), plg |-> cmd.plg, defs |-> <<>>]  new == <<b>> \o open
  <2>1. CtxOf(cmd, g) # NULL
    BY <1>2 DEF Opened, NULL
  <2>2. /\ Len(new) = Len(open) + 1 /\ new[1] = b
        /\ \A i \in 1..Len(open) : new[i + 1] = open[i]
    BY PushOpen, Zenon
  <2>3. new[1].ctx # NULL
    BY <2>1, <2>2
  <2>4. open' = new /\ block' = block + 1 /\ depth' = depth + 1 /\ node' = TRUE
        /\ bcData' = CtxOf(cmd, g)
    BY <1>2 DEF Opened
  <2> HIDE DEF new, b
  <2>5. Len(new) = block' + 1 /\ new[block' + 1].ctx = NULL
    BY <1>1, <2>2, <2>4
  <2>6. \A i \in 1..block' : new[i].ctx # NULL
    <3> TAKE i \in 1..block'
    <3>1. CASE i = 1
      BY <2>3, <3>1
    <3>2. CASE i # 1
      <4>1. i - 1 \in 1..block /\ i - 1 \in 1..Len(open) /\ (i - 1) + 1 = i
        BY <1>1, <2>4, <3>2
      <4> QED
        BY <1>1, <2>2, <4>1
    <3> QED
      BY <3>1, <3>2
  <2> QED
    BY <1>1, <2>1, <2>4, <2>5, <2>6 DEF Blocks
<1>3. ASSUME NEW cmd \in Cmds, NEW arg \in Names \cup {Lit}, Ran(cmd, arg) PROVE Blocks'
  BY <1>3 DEF Ran, Blocks
<1>4. ASSUME Closed PROVE Blocks'
  <2>1. /\ block > 0 /\ block' = block - 1 /\ depth' = depth - 1 /\ open' = Tail(open)
        /\ node' = (depth' > 0) /\ bcData' = bcData
    BY <1>1, <1>4 DEF Closed, BlockEnd
  <2>2. /\ Len(open') = Len(open) - 1
        /\ \A i \in 1..Len(open') : open'[i] = open[i + 1]
    <3>1. open \in Seq(B) /\ open # <<>>
      BY DEF TypeOK
    <3> HIDE DEF B
    <3> QED
      BY <2>1, <3>1, HeadTailProperties
  <2>3. block' \in Nat /\ depth' = block' /\ Len(open') = block' + 1
    BY <1>1, <2>1, <2>2
  <2>4. open'[block' + 1].ctx = NULL /\ \A i \in 1..block' : open'[i].ctx # NULL
    BY <1>1, <2>1, <2>2, <2>3
  <2>5. bcData' # NULL
    BY <2>1 DEF Blocks
  <2>6. node' <=> block' > 0
    BY <2>1, <2>3
  <2> QED
    BY <2>3, <2>4, <2>5, <2>6 DEF Blocks
<1>5. ASSUME NEW name \in Names, NEW from \in Names \cup {Lit}, NEW g \in Currs,
             Defined(name, from, g)
      PROVE  Blocks'
  <2> DEFINE e == Elem(name, from)
  <2>1. /\ e \in Defs /\ open' = [open EXCEPT ![1].defs = <<e>> \o @]
        /\ UNCHANGED <<block, depth, node, bcData>>
    BY <1>5 DEF Defined
  <2> HIDE DEF e
  <2>2. /\ Len(open') = Len(open) /\ open'[1].ctx = open[1].ctx
        /\ \A i \in 2..Len(open) : open'[i] = open[i]
    BY <2>1, OpenDefined
  <2>3. \A i \in 1..(block + 1) : open'[i].ctx = open[i].ctx
    <3> TAKE i \in 1..(block + 1)
    <3>1. i = 1 \/ i \in 2..Len(open)
      BY <1>1
    <3> QED
      BY <2>2, <3>1
  <2> QED
    BY <1>1, <2>1, <2>2, <2>3 DEF Blocks
<1>6. ASSUME Kept PROVE Blocks'
  BY <1>6 DEF Kept, Blocks
<1> QED
  BY <1>2, <1>3, <1>4, <1>5, <1>6, StepIs

-----------------------------------------------------------------------------
(* The marks on the stack of variables.                                    *)

(* The same with the ranges of the positions.                              *)
LayersFit(n, m, s, op, base) ==
  /\ \A i \in 1..(n + 1) : base[i] \in Nat /\ 1 <= base[i] /\ base[i] <= m + 1
  /\ base[1] = 1 /\ base[n + 1] = m + 1
  /\ \A i \in 1..n : /\ base[i + 1] = base[i] + Len(op[i].defs) + 1
                     /\ base[i] < base[i + 1] /\ base[i + 1] - 1 \in 1..m
                     /\ s[base[i + 1] - 1] = Mark /\ Len(op[i].defs) \in Nat
  /\ \A i \in 1..n : \A j \in 1..Len(op[i].defs) :
       base[i] + j - 1 \in 1..m /\ s[base[i] + j - 1] = op[i].defs[j]
  /\ \A i, k \in 1..(n + 1) : i < k => base[i] < base[k]
  /\ \A p \in 1..m : \E i \in 1..n : base[i] <= p /\ p < base[i + 1]

LEMMA LayersAre ==
  ASSUME NEW n \in Nat, NEW s, NEW op, Len(s) \in Nat,
         \A i \in 1..n : Len(op[i].defs) \in Nat,
         NEW base \in [1..(n + 1) -> 1..(Len(s) + 1)], LayersAt(n, s, op, base)
  PROVE  LayersFit(n, Len(s), s, op, base)
<1> DEFINE m == Len(s)
<1>1. m \in Nat
  OBVIOUS
<1>2. \A i \in 1..(n + 1) : base[i] \in Nat /\ 1 <= base[i] /\ base[i] <= m + 1
  OBVIOUS
<1>3. \A i \in 1..n : i \in 1..(n + 1) /\ i + 1 \in 1..(n + 1) /\ i < i + 1
  OBVIOUS
<1> HIDE DEF m
<1>4. /\ \A i \in 1..n : base[i + 1] = base[i] + Len(op[i].defs) + 1 /\ s[base[i + 1] - 1] = Mark
      /\ \A i \in 1..n : \A j \in 1..Len(op[i].defs) : s[base[i] + j - 1] = op[i].defs[j]
      /\ \A i, k \in 1..(n + 1) : i < k => base[i] < base[k]
  BY DEF LayersAt
<1>5. ASSUME NEW i \in 1..n
      PROVE  /\ base[i] < base[i + 1] /\ base[i + 1] - 1 \in 1..m
             /\ \A j \in 1..Len(op[i].defs) : base[i] + j - 1 \in 1..m
  <2> DEFINE a == base[i]  b == base[i + 1]  d == Len(op[i].defs)
  <2>1. a \in Nat /\ 1 <= a /\ b \in Nat /\ b <= m + 1 /\ d \in Nat /\ b = a + d + 1
    BY <1>2, <1>3, <1>4
  <2> HIDE DEF a, b, d
  <2>2. a < b /\ b - 1 \in 1..m /\ \A j \in 1..d : a + j - 1 \in 1..m
    BY <1>1, <2>1
  <2> QED
    BY <2>2 DEF a, b, d
<1> QED
  BY <1>2, <1>4, <1>5 DEF LayersAt, LayersFit, m

(* Positions moved up by one, and an index moved down by one.              *)
LEMMA ShiftUp ==
  ASSUME NEW a \in Nat, NEW b \in Nat, NEW d \in Nat, NEW u, NEW v,
         b = a + d + 1, u = a + 1, v = b + 1
  PROVE  /\ v = u + d + 1 /\ v - 1 = (b - 1) + 1
         /\ \A j \in 1..d : u + j - 1 = (a + j - 1) + 1
OBVIOUS

LEMMA StepDown ==
  ASSUME NEW d \in Nat, NEW j \in 1..(d + 1), j # 1, NEW a, NEW u, a = 1, u = 1
  PROVE  j - 1 \in 1..d /\ (j - 1) + 1 = j /\ a + (j - 1) - 1 = j - 1 /\ u + j - 1 = j
OBVIOUS

LEMMA LayersPush ==
  ASSUME NEW n \in Nat, NEW s, NEW t, NEW op, NEW new, Len(s) \in Nat, Layered(n, s, op),
         \A i \in 1..n : Len(op[i].defs) \in Nat,
         Len(t) = Len(s) + 1, t[1] = Mark, \A i \in 1..Len(s) : t[i + 1] = s[i],
         new[1].defs = <<>>, \A i \in 1..n : new[i + 1] = op[i]
  PROVE  Layered(n + 1, t, new)
<1>1. PICK base \in [1..(n + 1) -> 1..(Len(s) + 1)] : LayersAt(n, s, op, base)
  BY DEF Layered
<1> DEFINE m == Len(s)  up == [i \in 1..(n + 2) |-> IF i = 1 THEN 1 ELSE base[i - 1] + 1]
<1>2. m \in Nat /\ Len(t) = m + 1 /\ t[1] = Mark /\ \A p \in 1..m : t[p + 1] = s[p]
  OBVIOUS
<1>3. /\ \A i \in 1..(n + 1) : base[i] \in Nat /\ 1 <= base[i] /\ base[i] <= m + 1
      /\ base[1] = 1 /\ base[n + 1] = m + 1
      /\ \A i \in 1..n : /\ base[i + 1] = base[i] + Len(op[i].defs) + 1
                         /\ base[i + 1] - 1 \in 1..m /\ s[base[i + 1] - 1] = Mark
      /\ \A i \in 1..n : \A j \in 1..Len(op[i].defs) :
           base[i] + j - 1 \in 1..m /\ s[base[i] + j - 1] = op[i].defs[j]
      /\ \A i, k \in 1..(n + 1) : i < k => base[i] < base[k]
      /\ \A p \in 1..m : \E i \in 1..n : base[i] <= p /\ p < base[i + 1]
  <2>1. LayersFit(n, m, s, op, base)
    BY <1>1, LayersAre
  <2> QED
    BY <2>1 DEF LayersFit
<1>4. up[1] = 1 /\ \A i \in 1..(n + 1) : up[i + 1] = base[i] + 1
  OBVIOUS
<1>5. up \in [1..(n + 2) -> 1..(m + 2)]
  <2>1. \A i \in 1..(n + 2) : (IF i = 1 THEN 1 ELSE base[i - 1] + 1) \in 1..(m + 2)
    BY <1>2, <1>3
  <2> QED
    BY <2>1
<1> HIDE DEF up, m
<1>6. up[2] = 2 /\ up[(n + 1) + 1] = Len(t) + 1
  BY <1>2, <1>3, <1>4
<1>7. ASSUME NEW i \in 1..(n + 1)
      PROVE  /\ up[i + 1] = up[i] + Len(new[i].defs) + 1
             /\ t[up[i + 1] - 1] = Mark
             /\ \A j \in 1..Len(new[i].defs) : t[up[i] + j - 1] = new[i].defs[j]
  <2>1. CASE i = 1
    <3>1. Len(new[1].defs) = 0
      OBVIOUS
    <3> QED
      BY <1>2, <1>4, <1>6, <2>1, <3>1
  <2>2. CASE i # 1
    <3>1. PICK k \in 1..n : i = k + 1 /\ new[i] = op[k] /\ k + 1 \in 1..(n + 1) /\ k \in 1..(n + 1)
      <4>1. i - 1 \in 1..n /\ i = (i - 1) + 1
        BY <2>2
      <4> QED
        BY <4>1
    <3> DEFINE a == base[k]  b == base[k + 1]  d == Len(op[k].defs)
    <3>2. up[i] = a + 1 /\ up[i + 1] = b + 1
      BY <1>4, <3>1
    <3>3. a \in Nat /\ b \in Nat /\ d \in Nat /\ b = a + d + 1 /\ b - 1 \in 1..m /\ s[b - 1] = Mark
          /\ \A j \in 1..d : a + j - 1 \in 1..m /\ s[a + j - 1] = op[k].defs[j]
      BY <1>3, <3>1
    <3> HIDE DEF a, b, d
    <3>4. up[i + 1] = up[i] + d + 1 /\ up[i + 1] - 1 = (b - 1) + 1
          /\ \A j \in 1..d : up[i] + j - 1 = (a + j - 1) + 1
      <4>1. a \in Nat /\ b \in Nat /\ d \in Nat /\ b = a + d + 1
        BY <3>3
      <4>2. ASSUME NEW u, NEW v, u = a + 1, v = b + 1
            PROVE  /\ v = u + d + 1 /\ v - 1 = (b - 1) + 1
                   /\ \A j \in 1..d : u + j - 1 = (a + j - 1) + 1
        BY <4>1, <4>2, ShiftUp
      <4> QED
        BY <3>2, <4>2, ZenonT(60)
    <3>5. t[up[i + 1] - 1] = Mark
      BY <1>2, <3>3, <3>4
    <3>6. \A j \in 1..d : t[up[i] + j - 1] = op[k].defs[j]
      BY <1>2, <3>3, <3>4
    <3> QED
      BY <3>1, <3>4, <3>5, <3>6 DEF d
  <2> QED
    BY <2>1, <2>2
<1>8. \A i, k \in 1..((n + 1) + 1) : i < k => up[i] < up[k]
  <2> SUFFICES ASSUME NEW i \in 1..(n + 2), NEW k \in 1..(n + 2), i < k PROVE up[i] < up[k]
    OBVIOUS
  <2>1. k - 1 \in 1..(n + 1) /\ (k - 1) + 1 = k
    OBVIOUS
  <2>2. up[k] = base[k - 1] + 1 /\ base[k - 1] \in Nat /\ 1 <= base[k - 1]
    BY <1>3, <1>4, <2>1
  <2>3. CASE i = 1
    BY <1>4, <2>2, <2>3, SMTT(30)
  <2>4. CASE i # 1
    <3>1. i - 1 \in 1..(n + 1) /\ (i - 1) + 1 = i /\ i - 1 < k - 1
      BY <2>4
    <3>2. up[i] = base[i - 1] + 1 /\ base[i - 1] \in Nat /\ base[i - 1] < base[k - 1]
      BY <1>3, <1>4, <2>1, <3>1
    <3> DEFINE a == base[i - 1]  b == base[k - 1]
    <3>3. up[i] = a + 1 /\ up[k] = b + 1 /\ a \in Nat /\ b \in Nat /\ a < b
      BY <2>2, <3>2
    <3> HIDE DEF a, b
    <3> QED
      BY <3>3
  <2> QED
    BY <2>3, <2>4
<1>9. \A p \in 1..Len(t) : \E i \in 1..(n + 1) : up[i] <= p /\ p < up[i + 1]
  <2> TAKE p \in 1..Len(t)
  <2>1. CASE p = 1
    <3>1. 1 \in 1..(n + 1) /\ up[1] <= p /\ p < up[1 + 1]
      BY <1>4, <1>6, <2>1
    <3> QED
      BY <3>1
  <2>2. CASE p # 1
    <3>1. p - 1 \in 1..m
      BY <1>2, <2>2
    <3>2. PICK i \in 1..n : base[i] <= p - 1 /\ p - 1 < base[i + 1]
      BY <1>3, <3>1
    <3>3. i \in 1..(n + 1) /\ i + 1 \in 1..(n + 1)
      OBVIOUS
    <3>4. up[i + 1] = base[i] + 1 /\ up[(i + 1) + 1] = base[i + 1] + 1
          /\ base[i] \in Nat /\ base[i + 1] \in Nat
      BY <1>3, <1>4, <3>3
    <3>5. up[i + 1] <= p /\ p < up[(i + 1) + 1]
      BY <3>1, <3>2, <3>4
    <3> QED
      BY <3>3, <3>5
  <2> QED
    BY <2>1, <2>2
<1>10. LayersAt(n + 1, t, new, up)
  BY <1>4, <1>6, <1>7, <1>8, <1>9 DEF LayersAt
<1>11. (n + 1) + 1 = n + 2 /\ Len(t) + 1 = m + 2
  BY <1>2
<1> QED
  BY <1>5, <1>10, <1>11 DEF Layered

LEMMA LayersDefine ==
  ASSUME NEW n \in Nat \ {0}, NEW s, NEW t, NEW op, NEW new, NEW e,
         Len(s) \in Nat, Layered(n, s, op),
         \A i \in 1..n : Len(op[i].defs) \in Nat,
         Len(t) = Len(s) + 1, t[1] = e, \A i \in 1..Len(s) : t[i + 1] = s[i],
         Len(new[1].defs) = Len(op[1].defs) + 1, new[1].defs[1] = e,
         \A j \in 1..Len(op[1].defs) : new[1].defs[j + 1] = op[1].defs[j],
         \A i \in 2..n : new[i] = op[i]
  PROVE  Layered(n, t, new)
<1>1. PICK base \in [1..(n + 1) -> 1..(Len(s) + 1)] : LayersAt(n, s, op, base)
  BY DEF Layered
<1> DEFINE m == Len(s)  up == [i \in 1..(n + 1) |-> IF i = 1 THEN 1 ELSE base[i] + 1]
<1>2. m \in Nat /\ Len(t) = m + 1 /\ t[1] = e /\ \A p \in 1..m : t[p + 1] = s[p]
  OBVIOUS
<1>3. LayersFit(n, m, s, op, base)
  BY <1>1, LayersAre
<1>4. up[1] = 1 /\ \A i \in 2..(n + 1) : up[i] = base[i] + 1
  OBVIOUS
<1>5. up \in [1..(n + 1) -> 1..(m + 2)]
  <2>1. \A i \in 1..(n + 1) : (IF i = 1 THEN 1 ELSE base[i] + 1) \in 1..(m + 2)
    <3>1. \A i \in 1..(n + 1) : base[i] \in Nat /\ base[i] <= m + 1
      BY <1>3 DEF LayersFit
    <3> HIDE DEF m
    <3> TAKE i \in 1..(n + 1)
    <3> DEFINE a == base[i]
    <3>2. a \in Nat /\ a <= m + 1 /\ m \in Nat
      BY <1>2, <3>1
    <3> HIDE DEF a
    <3>3. 1 \in 1..(m + 2) /\ a + 1 \in 1..(m + 2)
      BY <3>2
    <3> QED
      BY <3>3 DEF a
  <2> QED
    BY <2>1
<1> HIDE DEF up, m
<1>6. up[n + 1] = Len(t) + 1
  BY <1>2, <1>3, <1>4, SMTT(30) DEF LayersFit
<1>7. ASSUME NEW i \in 1..n
      PROVE  /\ up[i + 1] = up[i] + Len(new[i].defs) + 1
             /\ t[up[i + 1] - 1] = Mark
             /\ \A j \in 1..Len(new[i].defs) : t[up[i] + j - 1] = new[i].defs[j]
  <2> DEFINE a == base[i]  b == base[i + 1]  d == Len(op[i].defs)
  <2>1. i + 1 \in 2..(n + 1) /\ i \in 1..(n + 1) /\ i + 1 \in 1..(n + 1)
    OBVIOUS
  <2>2. a \in Nat /\ b \in Nat /\ d \in Nat /\ b = a + d + 1 /\ up[i + 1] = b + 1 /\ 1 <= a
    BY <1>3, <1>4, <2>1 DEF LayersFit
  <2>3. b - 1 \in 1..m /\ s[b - 1] = Mark
    BY <1>3 DEF LayersFit
  <2>4. \A j \in 1..d : a + j - 1 \in 1..m /\ s[a + j - 1] = op[i].defs[j]
    BY <1>3 DEF LayersFit
  <2>5. i = 1 => a = 1
    BY <1>3 DEF LayersFit
  <2>6. i # 1 => up[i] = a + 1 /\ new[i] = op[i]
    BY <1>4, SMTT(30)
  <2>7. i = 1 => Len(new[i].defs) = d + 1
    OBVIOUS
  <2> HIDE DEF a, b, d
  <2>8. t[up[i + 1] - 1] = Mark
    <3>1. up[i + 1] - 1 = (b - 1) + 1
      BY <2>2
    <3> QED
      BY <1>2, <2>3, <3>1
  <2>9. CASE i = 1
    <3>1. up[i + 1] = up[i] + Len(new[i].defs) + 1
      BY <1>4, <2>2, <2>5, <2>7, <2>9
    <3>2. ASSUME NEW j \in 1..Len(new[i].defs) PROVE t[up[i] + j - 1] = new[i].defs[j]
      <4>1. CASE j = 1
        <5>1. up[i] + j - 1 = 1
          BY <1>4, <2>9, <4>1
        <5> QED
          BY <1>2, <2>9, <4>1, <5>1
      <4>2. CASE j # 1
        <5>1. j - 1 \in 1..d /\ (j - 1) + 1 = j /\ a + (j - 1) - 1 = j - 1 /\ up[i] + j - 1 = j
          <6>1. j \in 1..(d + 1) /\ a = 1 /\ up[i] = 1
            BY <1>4, <2>5, <2>7, <2>9
          <6> QED
            BY <2>2, <4>2, <6>1, StepDown
        <5>2. j - 1 \in 1..m /\ s[j - 1] = op[1].defs[j - 1]
          BY <2>4, <2>9, <5>1
        <5>3. t[j] = s[j - 1]
          BY <1>2, <5>1, <5>2
        <5>4. new[1].defs[j] = op[1].defs[j - 1]
          BY <2>9, <5>1 DEF d
        <5> QED
          BY <2>9, <5>1, <5>2, <5>3, <5>4
      <4> QED
        BY <4>1, <4>2
    <3> QED
      BY <2>8, <3>1, <3>2
  <2>10. CASE i # 1
    <3>1. up[i] = a + 1 /\ new[i] = op[i] /\ Len(new[i].defs) = d
      BY <2>6, <2>10 DEF d
    <3>2. up[i + 1] = up[i] + d + 1
      BY <2>2, <3>1
    <3>3. ASSUME NEW j \in 1..d PROVE t[up[i] + j - 1] = op[i].defs[j]
      <4>1. up[i] + j - 1 = (a + j - 1) + 1
        BY <2>2, <3>1
      <4> QED
        BY <1>2, <2>4, <4>1
    <3> QED
      BY <2>8, <3>1, <3>2, <3>3
  <2> QED
    BY <2>9, <2>10
<1>8. ASSUME NEW i \in 1..(n + 1), NEW k \in 1..(n + 1), i < k PROVE up[i] < up[k]
  <2> DEFINE a == base[i]  b == base[k]
  <2>1. k \in 2..(n + 1) /\ (i # 1 => i \in 2..(n + 1))
    BY <1>8
  <2>2. a \in Nat /\ b \in Nat /\ a < b /\ 1 <= b
    BY <1>3, <1>8 DEF LayersFit
  <2>3. up[k] = b + 1 /\ (i = 1 => up[i] = 1) /\ (i # 1 => up[i] = a + 1)
    BY <1>4, <2>1
  <2> HIDE DEF a, b
  <2> QED
    BY <2>2, <2>3
<1>9. ASSUME NEW p \in 1..Len(t) PROVE \E i \in 1..n : up[i] <= p /\ p < up[i + 1]
  <2>1. CASE p = 1
    <3>1. 1 \in 1..n /\ 2 \in 1..(n + 1) /\ 1 + 1 = 2
      OBVIOUS
    <3>2. up[2] = base[2] + 1 /\ base[2] \in Nat /\ 1 <= base[2]
      BY <1>3, <1>4, <3>1 DEF LayersFit
    <3>3. up[1] <= p /\ p < up[1 + 1]
      BY <1>4, <2>1, <3>1, <3>2
    <3> QED
      BY <3>1, <3>3
  <2>2. CASE p # 1
    <3>1. p - 1 \in 1..m
      BY <1>2, <2>2
    <3>2. PICK i \in 1..n : base[i] <= p - 1 /\ p - 1 < base[i + 1]
      BY <1>3, <3>1 DEF LayersFit
    <3> DEFINE a == base[i]  b == base[i + 1]
    <3>3. i \in 1..(n + 1) /\ i + 1 \in 2..(n + 1) /\ i + 1 \in 1..(n + 1)
      OBVIOUS
    <3>4. /\ up[i + 1] = b + 1 /\ (i = 1 => up[i] = 1) /\ (i # 1 => up[i] = a + 1)
          /\ a \in Nat /\ b \in Nat /\ a <= p - 1 /\ p - 1 < b
      BY <1>3, <1>4, <3>2, <3>3 DEF LayersFit
    <3> HIDE DEF a, b
    <3>5. up[i] <= p /\ p < up[i + 1]
      BY <1>2, <3>4, SMTT(30)
    <3> QED
      BY <3>5
  <2> QED
    BY <2>1, <2>2
<1>10. LayersAt(n, t, new, up)
  BY <1>4, <1>6, <1>7, <1>8, <1>9 DEF LayersAt
<1>11. Len(t) + 1 = m + 2
  BY <1>2, SMTT(30)
<1> QED
  BY <1>5, <1>10, <1>11 DEF Layered

(* The stack t is s without its first block, and so are the blocks.        *)
Popped(n, s, t, op, new, base, c) ==
  /\ Len(s) \in Nat /\ \A i \in 1..n : Len(op[i].defs) \in Nat
  /\ base \in [1..(n + 1) -> 1..(Len(s) + 1)] /\ LayersAt(n, s, op, base) /\ c = base[2]
  /\ Len(t) = Len(s) - c + 1 /\ \A i \in 1..(Len(s) - c + 1) : t[i] = s[c + i - 1]
  /\ \A i \in 1..(n - 1) : new[i] = op[i + 1]

LEMMA LayersPop ==
  ASSUME NEW n \in Nat \ {0}, NEW s, NEW t, NEW op, NEW new, NEW base, NEW c,
         Popped(n, s, t, op, new, base, c)
  PROVE  Layered(n - 1, t, new)
<1> DEFINE m == Len(s)  down == [i \in 1..n |-> base[i + 1] - c + 1]
<1>1. LayersFit(n, m, s, op, base)
  BY LayersAre DEF Popped
<1>2. 2 \in 1..(n + 1) /\ 2..(n + 1) \subseteq 1..(n + 1) /\ c = base[2]
  BY DEF Popped
<1>3. m \in Nat /\ c \in Nat /\ 1 <= c /\ c <= m + 1 /\ Len(t) = m - c + 1
  BY <1>1, <1>2 DEF LayersFit, Popped
<1>4. ASSUME NEW i \in 2..(n + 1) PROVE base[i] \in Nat /\ c <= base[i] /\ base[i] <= m + 1
  <2>1. base[i] \in Nat /\ base[i] <= m + 1
    BY <1>1, <1>2 DEF LayersFit
  <2>2. CASE i = 2
    BY <1>2, <1>3, <2>1, <2>2
  <2>3. CASE i # 2
    <3>1. 2 < i /\ i \in 1..(n + 1)
      BY <2>3
    <3>2. base[2] < base[i]
      BY <1>1, <1>2, <3>1 DEF LayersFit
    <3> QED
      BY <1>2, <1>3, <2>1, <3>2
  <2> QED
    BY <2>2, <2>3
<1>5. /\ \A p \in 1..(m - c + 1) : t[p] = s[c + p - 1]
      /\ \A i \in 1..n : Len(op[i].defs) \in Nat
      /\ \A i \in 1..(n - 1) : new[i] = op[i + 1]
  BY DEF Popped
<1>6. \A i \in 1..n : down[i] = base[i + 1] - c + 1
  OBVIOUS
<1>7. down \in [1..n -> 1..(Len(t) + 1)]
  <2>1. ASSUME NEW i \in 1..n PROVE base[i + 1] - c + 1 \in 1..(Len(t) + 1)
    <3>1. base[i + 1] \in Nat /\ c <= base[i + 1] /\ base[i + 1] <= m + 1
      BY <1>4
    <3> HIDE DEF m
    <3> QED
      BY <1>3, <3>1
  <2> QED
    BY <2>1
<1> HIDE DEF down, m
<1>8. down[1] = 1 /\ down[n] = Len(t) + 1
  <2>1. down[1] = c - c + 1
    BY <1>2, <1>6
  <2>2. down[n] = base[n + 1] - c + 1 /\ base[n + 1] = m + 1
    BY <1>1, <1>6 DEF LayersFit
  <2> QED
    BY <1>3, <2>1, <2>2
<1>9. ASSUME NEW i \in 1..(n - 1)
      PROVE  /\ down[i + 1] = down[i] + Len(new[i].defs) + 1
             /\ t[down[i + 1] - 1] = Mark
             /\ \A j \in 1..Len(new[i].defs) : t[down[i] + j - 1] = new[i].defs[j]
  <2>1. PICK k \in 1..n : k = i + 1 /\ k \in 2..n /\ k + 1 \in 2..(n + 1) /\ k \in 2..(n + 1)
    <3>1. i + 1 \in 1..n /\ i + 1 \in 2..n /\ (i + 1) + 1 \in 2..(n + 1) /\ i + 1 \in 2..(n + 1)
      OBVIOUS
    <3> QED
      BY <3>1
  <2> DEFINE a == base[k]  b == base[k + 1]  d == Len(op[k].defs)
  <2>2. /\ a \in Nat /\ b \in Nat /\ d \in Nat /\ b = a + d + 1 /\ c <= a /\ b <= m + 1
    BY <1>1, <1>4, <1>5, <2>1 DEF LayersFit
  <2>3. s[b - 1] = Mark /\ \A j \in 1..d : s[a + j - 1] = op[k].defs[j]
    BY <1>1 DEF LayersFit
  <2>4. down[i] = a - c + 1 /\ down[i + 1] = b - c + 1 /\ new[i] = op[k]
    BY <1>5, <1>6, <2>1
  <2>5. Len(new[i].defs) = d
    BY <2>4
  <2> HIDE DEF a, b, d
  <2>6. down[i + 1] = down[i] + d + 1
    BY <1>3, <2>2, <2>4
  <2>7. t[down[i + 1] - 1] = Mark
    <3>1. b - c \in 1..(m - c + 1) /\ c + (b - c) - 1 = b - 1 /\ down[i + 1] - 1 = b - c
      BY <1>3, <2>2, <2>4
    <3> QED
      BY <1>5, <2>3, <3>1
  <2>8. ASSUME NEW j \in 1..d PROVE t[down[i] + j - 1] = op[k].defs[j]
    <3>1. a - c + j \in 1..(m - c + 1) /\ c + (a - c + j) - 1 = a + j - 1
      BY <1>3, <2>2
    <3>2. down[i] + j - 1 = a - c + j
      BY <1>3, <2>2, <2>4
    <3> QED
      BY <1>5, <2>3, <3>1, <3>2
  <2> QED
    BY <2>4, <2>5, <2>6, <2>7, <2>8
<1>10. ASSUME NEW i \in 1..n, NEW k \in 1..n, i < k PROVE down[i] < down[k]
  <2> DEFINE a == base[i + 1]  b == base[k + 1]
  <2>1. i + 1 \in 1..(n + 1) /\ k + 1 \in 1..(n + 1) /\ i + 1 < k + 1
    BY <1>10
  <2>2. a \in Nat /\ b \in Nat /\ a < b
    BY <1>1, <2>1 DEF LayersFit
  <2>3. down[i] = a - c + 1 /\ down[k] = b - c + 1
    BY <1>6
  <2> HIDE DEF a, b
  <2> QED
    BY <1>3, <2>2, <2>3
<1>11. ASSUME NEW p \in 1..Len(t) PROVE \E i \in 1..(n - 1) : down[i] <= p /\ p < down[i + 1]
  <2>1. c + p - 1 \in 1..m
    BY <1>3
  <2>2. PICK k \in 1..n : base[k] <= c + p - 1 /\ c + p - 1 < base[k + 1]
    BY <1>1, <2>1 DEF LayersFit
  <2>3. k # 1
    <3>1. ASSUME k = 1 PROVE FALSE
      <4>1. c + p - 1 < c
        BY <1>2, <2>2, <3>1
      <4> QED
        BY <1>3, <4>1
    <3> QED
      BY <3>1
  <2>4. k - 1 \in 1..(n - 1) /\ (k - 1) + 1 = k /\ k - 1 \in 1..n /\ k \in 2..(n + 1)
        /\ k + 1 \in 2..(n + 1)
    BY <2>3
  <2> DEFINE a == base[k]  b == base[k + 1]
  <2>5. a \in Nat /\ b \in Nat /\ down[k - 1] = a - c + 1 /\ down[(k - 1) + 1] = b - c + 1
        /\ a <= c + p - 1 /\ c + p - 1 < b
    BY <1>4, <1>6, <2>2, <2>4
  <2> HIDE DEF a, b
  <2>6. down[k - 1] <= p /\ p < down[(k - 1) + 1]
    BY <1>3, <2>5
  <2> QED
    BY <2>4, <2>6
<1>12. (n - 1) + 1 = n /\ n - 1 \in Nat
  OBVIOUS
<1>13. LayersAt(n - 1, t, new, down)
  BY <1>8, <1>9, <1>10, <1>11, <1>12 DEF LayersAt
<1> QED
  BY <1>7, <1>12, <1>13 DEF Layered

(* The marks are where a block ends, one for each.                         *)
MarksOf(s) == {p \in 1..Len(s) : s[p] = Mark}
Ends(n, base) == {base[i + 1] - 1 : i \in 1..n}

LEMMA MarksAre ==
  ASSUME NEW n \in Nat, NEW s, NEW op, Len(s) \in Nat,
         \A i \in 1..n : Len(op[i].defs) \in Nat,
         \A i \in 1..n : \A j \in 1..Len(op[i].defs) : op[i].defs[j] \in Defs,
         NEW base \in [1..(n + 1) -> 1..(Len(s) + 1)], LayersAt(n, s, op, base)
  PROVE  MarksOf(s) = Ends(n, base)
<1> DEFINE m == Len(s)
<1>1. LayersFit(n, m, s, op, base)
  BY LayersAre
<1>2. \A i \in 1..n : base[i + 1] - 1 \in 1..m /\ s[base[i + 1] - 1] = Mark
  BY <1>1 DEF LayersFit
<1>3. ASSUME NEW p \in 1..m, s[p] = Mark PROVE \E i \in 1..n : p = base[i + 1] - 1
  <2>1. PICK i \in 1..n : base[i] <= p /\ p < base[i + 1]
    BY <1>1 DEF LayersFit
  <2> DEFINE a == base[i]  b == base[i + 1]  d == Len(op[i].defs)
  <2>2. a \in Nat /\ b \in Nat /\ d \in Nat /\ b = a + d + 1 /\ a <= p /\ p < b
    <3>1. i \in 1..(n + 1) /\ i + 1 \in 1..(n + 1)
      OBVIOUS
    <3> QED
      BY <1>1, <2>1, <3>1 DEF LayersFit
  <2>3. \A j \in 1..d : s[a + j - 1] = op[i].defs[j] /\ op[i].defs[j] \in Defs
    BY <1>1 DEF LayersFit
  <2> HIDE DEF a, b, d, m
  <2>4. CASE p = b - 1
    BY <2>4 DEF b
  <2>5. CASE p # b - 1
    <3>1. p - a + 1 \in 1..d /\ a + (p - a + 1) - 1 = p
      BY <2>2, <2>5
    <3>2. s[p] \in Defs
      BY <2>3, <3>1
    <3> QED
      BY <1>3, <3>2, ConfAssumption DEF Mark, Defs
  <2> QED
    BY <2>4, <2>5
<1> QED
  BY <1>2, <1>3 DEF MarksOf, Ends

LEMMA BlockDefs ==
  ASSUME TypeOK, Blocks
  PROVE  /\ varStack \in Seq(Defs \cup {Mark}) /\ Len(varStack) \in Nat
         /\ DOMAIN varStack = 1..Len(varStack)
         /\ \A i \in 1..block : Len(open[i].defs) \in Nat
         /\ \A i \in 1..block : \A j \in 1..Len(open[i].defs) : open[i].defs[j] \in Defs
<1>1. \A i \in 1..block : open[i].defs \in Seq(Defs)
  BY HeadOpen DEF Blocks
<1>2. varStack \in Seq(Defs \cup {Mark})
  BY DEF TypeOK
<1> QED
  BY <1>1, <1>2, LenProperties, ElementOfSeq

LEMMA OpenedLayers ==
  ASSUME TypeOK, Blocks, Layers, NEW cmd \in Cmds, NEW g \in Currs, Opened(cmd, g)
  PROVE  Layers'
<1> DEFINE b == [ctx |-> CtxOf(cmd, g), plg |-> cmd.plg, defs |-> <<>>]
           s == IF block = 0 THEN <<>> ELSE varStack
           V == Defs \cup {Mark}
<1>1. /\ block \in Nat /\ Len(open) = block + 1 /\ block' = block + 1
      /\ varStack' = <<Mark>> \o s /\ open' = <<b>> \o open /\ b.defs = <<>>
  BY DEF Opened, VarBlockPush, Blocks
<1>2. s \in Seq(V) /\ Mark \in V
  BY BlockDefs, EmptySeq
<1>3. \A i \in 1..block : Len(open[i].defs) \in Nat
  BY BlockDefs
<1>4. Layered(block, s, open)
  <2>1. CASE block > 0
    <3>1. s = varStack
      BY <1>1, <2>1
    <3> QED
      BY <2>1, <3>1 DEF Layers
  <2>2. CASE block = 0
    <3>1. s = <<>> /\ Len(s) = 0
      BY <2>2
    <3> DEFINE base == [i \in 1..1 |-> 1]
    <3>2. base \in [1..(0 + 1) -> 1..(Len(s) + 1)] /\ base[1] = 1
      BY <3>1
    <3> HIDE DEF base, s
    <3>3. LayersAt(0, s, open, base)
      BY <3>1, <3>2 DEF LayersAt
    <3> QED
      BY <2>2, <3>2, <3>3 DEF Layered
  <2> QED
    BY <1>1, <2>1, <2>2
<1> HIDE DEF s, V, b
<1>5. /\ Len(varStack') = Len(s) + 1 /\ Len(s) \in Nat /\ varStack'[1] = Mark
      /\ \A i \in 1..Len(s) : varStack'[i + 1] = s[i]
  <2> DEFINE new == <<Mark>> \o s
  <2>1. /\ Len(new) = Len(s) + 1 /\ Len(s) \in Nat /\ new[1] = Mark
        /\ \A i \in 1..Len(s) : new[i + 1] = s[i]
    BY <1>2, Prepend
  <2>2. varStack' = new
    BY <1>1
  <2> HIDE DEF new
  <2> QED
    BY <2>1, <2>2
<1>6. open'[1] = b /\ \A i \in 1..Len(open) : open'[i + 1] = open[i]
  BY <1>1, PushOpen
<1>7. open'[1].defs = <<>> /\ \A i \in 1..block : open'[i + 1] = open[i]
  BY <1>1, <1>6
<1>8. Layered(block + 1, varStack', open')
  BY <1>1, <1>3, <1>4, <1>5, <1>7, LayersPush
<1>9. block' > 0 /\ block' # 0
  BY <1>1
<1> QED
  BY <1>1, <1>8, <1>9 DEF Layers

LEMMA DefinedLayers ==
  ASSUME TypeOK, Blocks, Layers, NEW name \in Names, NEW from \in Names \cup {Lit},
         NEW g \in Currs, Defined(name, from, g)
  PROVE  Layers'
<1> DEFINE e == Elem(name, from)  V == Defs \cup {Mark}
<1>1. /\ e \in Defs /\ varStack' = <<e>> \o varStack /\ block' = block
      /\ open' = [open EXCEPT ![1].defs = <<e>> \o @]
  BY DEF Defined
<1> HIDE DEF e
<1>2. block \in Nat /\ Len(open) = block + 1
  BY DEF Blocks
<1>3. e \in V /\ varStack \in Seq(V) /\ e # Mark
  <2>1. e # Mark
    BY <1>1, ConfAssumption DEF Defs, Mark
  <2> QED
    BY <1>1, <2>1, BlockDefs
<1> HIDE DEF V
<1>4. /\ varStack' \in Seq(V) /\ Len(varStack') = Len(varStack) + 1 /\ Len(varStack) \in Nat
      /\ varStack'[1] = e /\ \A i \in 1..Len(varStack) : varStack'[i + 1] = varStack[i]
  <2> DEFINE new == <<e>> \o varStack
  <2>1. /\ new \in Seq(V) /\ Len(new) = Len(varStack) + 1 /\ Len(varStack) \in Nat
        /\ new[1] = e /\ \A i \in 1..Len(varStack) : new[i + 1] = varStack[i]
    BY <1>3, Prepend
  <2>2. varStack' = new
    BY <1>1
  <2> HIDE DEF new
  <2> QED
    BY <2>1, <2>2
<1>5. CASE block = 0
  <2>1. \A p \in 1..Len(varStack) : varStack[p] # Mark
    BY <1>5, BlockDefs DEF Layers, Marks
  <2>2. DOMAIN varStack' = 1..(Len(varStack) + 1)
    BY <1>4, LenProperties
  <2>3. ASSUME NEW p \in 1..(Len(varStack) + 1) PROVE varStack'[p] # Mark
    <3>1. CASE p = 1
      BY <1>3, <1>4, <3>1
    <3>2. CASE p # 1
      <4>1. p - 1 \in 1..Len(varStack) /\ (p - 1) + 1 = p
        BY <1>4, <3>2
      <4> QED
        BY <1>4, <2>1, <4>1
    <3> QED
      BY <3>1, <3>2
  <2>4. Marks' = {}
    BY <2>2, <2>3 DEF Marks
  <2> QED
    BY <1>1, <1>5, <2>4 DEF Layers
<1>6. CASE block > 0
  <2>1. /\ open'[1].defs = <<e>> \o open[1].defs
        /\ \A i \in 2..Len(open) : open'[i] = open[i]
    BY <1>1, OpenDefined
  <2>2. open[1].defs \in Seq(Defs)
    BY <1>2, <1>6, HeadOpen
  <2>3. /\ Len(open'[1].defs) = Len(open[1].defs) + 1 /\ open'[1].defs[1] = e
        /\ \A j \in 1..Len(open[1].defs) : open'[1].defs[j + 1] = open[1].defs[j]
    <3> DEFINE d == open[1].defs  new == <<e>> \o d
    <3>1. open'[1].defs = new /\ d \in Seq(Defs)
      BY <2>1, <2>2
    <3> HIDE DEF d
    <3>2. /\ Len(new) = Len(d) + 1 /\ new[1] = e
          /\ \A j \in 1..Len(d) : new[j + 1] = d[j]
      BY <1>1, <3>1, Prepend
    <3> HIDE DEF new
    <3> QED
      BY <3>1, <3>2 DEF d
  <2>4. \A i \in 2..block : open'[i] = open[i]
    BY <1>2, <2>1
  <2>5. \A i \in 1..block : Len(open[i].defs) \in Nat
    BY BlockDefs
  <2>6. Layered(block, varStack, open) /\ block \in Nat \ {0}
    BY <1>2, <1>6 DEF Layers
  <2>7. Layered(block, varStack', open')
    BY <1>4, <2>3, <2>4, <2>5, <2>6, LayersDefine
  <2> QED
    BY <1>1, <1>6, <2>7 DEF Layers
<1> QED
  BY <1>2, <1>5, <1>6

(* The first mark ends the innermost block.                                *)
LEMMA FirstMark ==
  ASSUME TypeOK, Blocks, Layers, block > 0,
         NEW base \in [1..(block + 1) -> 1..(Len(varStack) + 1)],
         LayersAt(block, varStack, open, base)
  PROVE  /\ Marks = {base[i + 1] - 1 : i \in 1..block}
         /\ base[2] \in 2..(Len(varStack) + 1) /\ Min(Marks) = base[2] - 1
         /\ Marks # {} /\ Marks \in SUBSET Nat
<1>1. block \in Nat \ {0} /\ Len(varStack) \in Nat
  BY BlockDefs DEF Blocks
<1>2. Marks = {base[i + 1] - 1 : i \in 1..block}
  <2>1. MarksOf(varStack) = Ends(block, base)
    <3>1. /\ \A i \in 1..block : Len(open[i].defs) \in Nat
          /\ \A i \in 1..block : \A j \in 1..Len(open[i].defs) : open[i].defs[j] \in Defs
      BY BlockDefs
    <3>2. block \in Nat /\ Len(varStack) \in Nat
      BY <1>1
    <3> QED
      BY <3>1, <3>2, MarksAre
  <2> QED
    BY <2>1, BlockDefs DEF Marks, MarksOf, Ends
<1>3. LayersFit(block, Len(varStack), varStack, open, base)
  BY <1>1, BlockDefs, LayersAre
<1>4. \A i \in 1..block : i + 1 \in 1..(block + 1) /\ (i # 1 => 2 < i + 1)
  BY <1>1
<1>5. 1 \in 1..block /\ 1 + 1 = 2 /\ 2 \in 1..(block + 1) /\ 1 \in 1..(block + 1)
  BY <1>1
<1>6. base[2] \in Nat /\ 1 < base[2] /\ base[2] <= Len(varStack) + 1
  BY <1>3, <1>5 DEF LayersFit
<1>7. \A i \in 1..block : base[i + 1] \in Nat /\ 1 <= base[i + 1] - 1 /\ base[2] <= base[i + 1]
  <2> TAKE i \in 1..block
  <2>1. base[i + 1] \in Nat
    BY <1>3, <1>4 DEF LayersFit
  <2>2. CASE i = 1
    BY <1>6, <2>2
  <2>3. CASE i # 1
    <3>1. base[2] < base[i + 1]
      BY <1>3, <1>4, <1>5, <2>3 DEF LayersFit
    <3> QED
      BY <1>6, <2>1, <3>1
  <2> QED
    BY <2>2, <2>3
<1>8. base[2] - 1 \in Marks /\ Marks \in SUBSET Nat /\ \A p \in Marks : base[2] - 1 <= p
  <2>1. base[2] - 1 \in Marks
    BY <1>2, <1>5
  <2>2. \A p \in Marks : p \in Nat /\ base[2] - 1 <= p
    BY <1>2, <1>6, <1>7
  <2> QED
    BY <2>1, <2>2
<1>9. Min(Marks) = base[2] - 1
  BY <1>8, MinIs
<1> QED
  BY <1>2, <1>6, <1>8, <1>9

LEMMA ClosedLayers ==
  ASSUME TypeOK, Blocks, Layers, Closed
  PROVE  Layers'
<1>1. block > 0 /\ block \in Nat \ {0} /\ Len(open) = block + 1
  BY DEF Blocks, Closed
<1>2. block' = block - 1 /\ varStack' = VarBlockPop /\ open' = Tail(open)
  BY DEF Closed, BlockEnd
<1>3. PICK base \in [1..(block + 1) -> 1..(Len(varStack) + 1)] :
        LayersAt(block, varStack, open, base)
  BY <1>1 DEF Layers, Layered
<1>4. base[2] \in 2..(Len(varStack) + 1) /\ Min(Marks) = base[2] - 1 /\ Marks # {}
  BY <1>1, <1>3, FirstMark
<1>5. Len(varStack) \in Nat /\ varStack \in Seq(Defs \cup {Mark})
  BY BlockDefs
<1> DEFINE c == base[2]  V == Defs \cup {Mark}
<1>6. c \in 1..(Len(varStack) + 1) /\ c \in Nat
  BY <1>4, <1>5
<1>7. varStack' = SubSeq(varStack, c, Len(varStack))
  <2>1. Min(Marks) + 1 = c
    BY <1>4, <1>6
  <2> QED
    BY <1>2, <1>4, <2>1 DEF VarBlockPop
<1> HIDE DEF c, V
<1>8. /\ Len(varStack') = Len(varStack) - c + 1
      /\ \A i \in 1..(Len(varStack) - c + 1) : varStack'[i] = varStack[c + i - 1]
      /\ varStack' \in Seq(V)
  BY <1>5, <1>6, <1>7, Rest DEF V
<1>9. \A i \in 1..(block - 1) : open'[i] = open[i + 1]
  <2> DEFINE B == [ctx : 0..Len(plgOf), plg : Plugins \cup {Main}, defs : Seq(Defs)]
  <2>1. open \in Seq(B) /\ open # <<>>
    BY DEF TypeOK
  <2> HIDE DEF B
  <2>2. Len(Tail(open)) = Len(open) - 1 /\ \A i \in 1..Len(Tail(open)) : Tail(open)[i] = open[i + 1]
    BY <2>1, HeadTailProperties
  <2> QED
    BY <1>1, <1>2, <2>2
<1>10. Popped(block, varStack, varStack', open, open', base, c)
  BY <1>3, <1>5, <1>8, <1>9, BlockDefs DEF Popped, c
<1>11. Layered(block - 1, varStack', open')
  BY <1>1, <1>10, LayersPop
<1>12. ASSUME block' = 0 PROVE Marks' = {}
  <2>1. block = 1
    BY <1>1, <1>2, <1>12
  <2>2. base[2] = Len(varStack) + 1
    BY <1>3, <2>1 DEF LayersAt
  <2>3. Len(varStack') = 0
    BY <1>5, <1>8, <2>2 DEF c
  <2>4. DOMAIN varStack' = {}
    BY <1>8, <2>3, LenProperties
  <2> QED
    BY <2>4 DEF Marks
<1> QED
  BY <1>2, <1>11, <1>12 DEF Layers

LEMMA LayersStep ==
  ASSUME Tidy, TypeOK, Blocks, Layers, [Next]_vars
  PROVE  Layers'
<1>1. ASSUME UNCHANGED <<block, varStack, open>> PROVE Layers'
  BY <1>1 DEF Layers, Marks
<1> QED
  BY <1>1, StepIs, OpenedLayers, DefinedLayers, ClosedLayers DEF Ran, Kept

LEMMA LayersInit == Init => Layers
<1> SUFFICES ASSUME Init PROVE Layers
  OBVIOUS
<1>1. block = 0 /\ varStack = <<>>
  BY DEF Init
<1> QED
  BY <1>1 DEF Layers, Marks

LEMMA MarksCounted ==
  ASSUME TypeOK, Blocks, Layers
  PROVE  Cardinality(Marks) = block
<1>1. CASE block = 0
  <2>1. Marks = {}
    BY <1>1 DEF Layers
  <2> QED
    BY <1>1, <2>1, FS_EmptySet
<1>2. CASE block > 0
  <2>1. PICK base \in [1..(block + 1) -> 1..(Len(varStack) + 1)] :
          LayersAt(block, varStack, open, base)
    BY <1>2 DEF Layers, Layered
  <2>2. Marks = {base[i + 1] - 1 : i \in 1..block}
    BY <1>2, <2>1, FirstMark
  <2>3. LayersFit(block, Len(varStack), varStack, open, base) /\ block \in Nat
    BY <2>1, BlockDefs, LayersAre DEF Blocks
  <2> DEFINE f == [i \in 1..block |-> base[i + 1] - 1]
  <2>4. f \in [1..block -> Marks] /\ \A p \in Marks : \E i \in 1..block : f[i] = p
    BY <2>2
  <2>5. ASSUME NEW i \in 1..block, NEW k \in 1..block, f[i] = f[k] PROVE i = k
    <3>1. f[i] = base[i + 1] - 1 /\ f[k] = base[k + 1] - 1
      OBVIOUS
    <3>2. i + 1 \in 1..(block + 1) /\ k + 1 \in 1..(block + 1) /\ i \in Nat /\ k \in Nat
          /\ (i < k => i + 1 < k + 1) /\ (k < i => k + 1 < i + 1)
      BY <2>3
    <3> DEFINE a == base[i + 1]  b == base[k + 1]
    <3>3. a \in Nat /\ b \in Nat /\ (i < k => a < b) /\ (k < i => b < a)
      BY <2>3, <3>2 DEF LayersFit
    <3>4. a - 1 = b - 1
      BY <2>5, <3>1
    <3> HIDE DEF a, b, f
    <3> QED
      BY <3>2, <3>3, <3>4
  <2> HIDE DEF f
  <2>6. f \in Bijection(1..block, Marks)
    BY <2>4, <2>5, Fun_IsBij
  <2>7. ExistsBijection(1..block, Marks)
    BY <2>6, Fun_ExistsBij
  <2> QED
    BY <2>3, <2>7, FS_CountingElements
<1> QED
  BY <1>1, <1>2 DEF Blocks

(* However the blocks of a well-formed file follow and contain each other, *)
(* with any number of plugins, lines and top-level blocks, and wherever a  *)
(* command fails: the loader's count, its stack of contexts and the marks  *)
(* on its stack of variables agree.  The marks are counted by the position *)
(* at which each block's definitions begin (Layers).                       *)
THEOREM StacksAgreeHolds ==
  ASSUME Tidy
  PROVE  Spec => []StacksAgree
<1>1. Init => Blocks /\ Layers
  BY BlocksInit, LayersInit
<1>2. TypeOK /\ Blocks /\ Layers /\ [Next]_vars => (Blocks /\ Layers)'
  BY BlocksStep, LayersStep
<1>3. TypeOK /\ Blocks /\ Layers => StacksAgree
  BY MarksCounted DEF StacksAgree, Blocks
<1> QED
  BY <1>1, <1>2, <1>3, TypeCorrect, PTL DEF Spec

-----------------------------------------------------------------------------
(* The context that a setter gets.                                         *)

LEMMA ContextsInit == Init => Contexts
<1> SUFFICES ASSUME Init PROVE Contexts
  OBVIOUS
<1>1. Len(open) = 1 /\ open[1] = File /\ File.plg = Main
  BY DEF Init, File
<1>2. cl.kind # "set" /\ call.plg = Main
  BY DEF Init, NoCmd, NoCall
<1> QED
  BY <1>1, <1>2 DEF Contexts, SetterFits

LEMMA OpenedContexts ==
  ASSUME Nested = FALSE, TypeOK, Blocks, Contexts, NEW cmd \in Cmds, NEW g \in Currs,
         Opened(cmd, g)
  PROVE  Contexts'
<1> DEFINE b == [ctx |-> CtxOf(cmd, g), plg |-> cmd.plg, defs |-> <<>>]
<1>1. /\ cmd.kind = "block" /\ open' = <<b>> \o open /\ bcData' = b.ctx /\ b.ctx \in 1..Len(plgOf')
      /\ b.plg = cmd.plg /\ (b.plg # Main => plgOf'[b.ctx] = b.plg)
      /\ cl' = cmd /\ call' = NoCall
  BY DEF Opened
<1>2. b.plg # Main => b.ctx # First
  BY Scalars, EmptySeq DEF CtxOf, First, Opened, TypeOK
<1>3. Len(open) = block + 1 /\ block \in Nat /\ Head(open) = open[1]
  BY OpenInside
<1>4. open[1].ctx \in {NULL, First}
  <2>1. Written(cmd)
    BY DEF Opened
  <2>2. CASE cmd.plg = Main
    <3>1. Len(open) = 1
      BY <1>1, <2>1, <2>2 DEF Written
    <3> QED
      BY <1>3, <3>1 DEF Blocks
  <2>3. CASE cmd.plg # Main
    BY <1>1, <1>3, <2>1, <2>3 DEF Written
  <2> QED
    BY <2>2, <2>3
<1>5. open[1].plg = Main
  BY <1>3, <1>4 DEF Contexts
<1> HIDE DEF b
<1>6. /\ Len(open') = Len(open) + 1 /\ open'[1] = b
      /\ \A i \in 1..Len(open) : open'[i + 1] = open[i]
  BY <1>1, PushOpen
<1>7. ASSUME NEW i \in 1..Len(open'), i # 1 \/ open'[i].ctx \in {NULL, First}
      PROVE  open'[i].plg = Main
  <2>1. CASE i = 1
    BY <1>1, <1>2, <1>6, <1>7, <2>1 DEF NULL
  <2>2. CASE i # 1
    <3>1. i - 1 \in 1..Len(open) /\ (i - 1) + 1 = i
      BY <1>3, <1>6, <2>2
    <3>2. open'[i] = open[i - 1]
      BY <1>6, <3>1
    <3>3. open[i - 1].plg = Main
      BY <1>5, <3>1 DEF Contexts
    <3> QED
      BY <3>2, <3>3
  <2> QED
    BY <2>1, <2>2
<1>8. open'[1].plg # Main => bcData' # NULL /\ plgOf'[bcData'] = open'[1].plg
  BY <1>1, <1>6 DEF NULL
<1>9. cl'.kind # "set" /\ SetterFits'
  BY <1>1 DEF SetterFits, NoCall
<1> QED
  BY <1>7, <1>8, <1>9 DEF Contexts

LEMMA ContextsStep ==
  ASSUME Tidy, Nested = FALSE, TypeOK, Blocks, Contexts, [Next]_vars
  PROVE  Contexts'
<1>1. ASSUME NEW cmd \in Cmds, NEW arg \in Names \cup {Lit}, Ran(cmd, arg) PROVE Contexts'
  <2>1. /\ UNCHANGED <<open, plgOf, bcData>> /\ cl' = cmd
        /\ call' = IF cmd.kind = "set"
                   THEN [plg |-> cmd.plg, ctx |-> bcData, want |-> Head(open).ctx]
                   ELSE NoCall
    BY <1>1 DEF Ran, SetCmd
  <2>2. cmd.kind = "set" => open[1].plg = cmd.plg
    BY <1>1, HeadOpen DEF Ran, Written
  <2>3. cmd.kind = "set" /\ cmd.plg # Main => bcData # NULL /\ plgOf[bcData] = cmd.plg
    BY <2>2 DEF Contexts
  <2>4. SetterFits'
    BY <2>1, <2>3 DEF SetterFits, NoCall
  <2> QED
    BY <2>1, <2>3, <2>4 DEF Contexts
<1>2. ASSUME Closed PROVE Contexts'
  <2>1. /\ open' = Tail(open) /\ UNCHANGED <<plgOf, bcData, cl>>
        /\ call' = IF cl.kind = "set"
                   THEN [plg |-> cl.plg, ctx |-> bcData, want |-> Head(open).ctx]
                   ELSE NoCall
    BY <1>2 DEF Closed, BlockEnd, SetCmd
  <2>2. SetterFits'
    BY <2>1 DEF SetterFits, NoCall, Contexts
  <2>3. \A i \in 1..Len(open') : open'[i].plg = Main
    <3> DEFINE B == [ctx : 0..Len(plgOf), plg : Plugins \cup {Main}, defs : Seq(Defs)]
    <3>1. open \in Seq(B) /\ open # <<>> /\ Len(open) \in Nat
      BY HeadOpen DEF TypeOK
    <3> HIDE DEF B
    <3>2. Len(open') = Len(open) - 1 /\ \A i \in 1..Len(open') : open'[i] = open[i + 1]
      BY <2>1, <3>1, HeadTailProperties
    <3> TAKE i \in 1..Len(open')
    <3>3. i + 1 \in 1..Len(open) /\ i + 1 # 1
      BY <3>1, <3>2
    <3> QED
      BY <3>2, <3>3 DEF Contexts
  <2>4. 1 \in 1..Len(open')
    <3>1. open' \in Seq([ctx : 0..Len(plgOf'), plg : Plugins \cup {Main}, defs : Seq(Defs)])
          /\ open' # <<>>
      BY TypeStep DEF TypeOK
    <3> QED
      BY <3>1, EmptySeq, LenProperties
  <2> QED
    BY <2>1, <2>2, <2>3, <2>4 DEF Contexts
<1>3. ASSUME NEW name \in Names, NEW from \in Names \cup {Lit}, NEW g \in Currs,
             Defined(name, from, g)
      PROVE  Contexts'
  <2> DEFINE e == Elem(name, from)
  <2>1. /\ e \in Defs /\ open' = [open EXCEPT ![1].defs = <<e>> \o @]
        /\ UNCHANGED <<plgOf, bcData, cl>> /\ call' = NoCall
    BY <1>3 DEF Defined
  <2> HIDE DEF e
  <2>2. /\ Len(open') = Len(open) /\ open'[1].ctx = open[1].ctx /\ open'[1].plg = open[1].plg
        /\ \A i \in 2..Len(open) : open'[i] = open[i]
    BY <2>1, OpenDefined
  <2>3. \A i \in 1..Len(open) : open'[i].ctx = open[i].ctx /\ open'[i].plg = open[i].plg
    <3> TAKE i \in 1..Len(open)
    <3>1. i = 1 \/ i \in 2..Len(open)
      BY HeadOpen
    <3> QED
      BY <2>2, <3>1
  <2>4. SetterFits'
    BY <2>1 DEF SetterFits, NoCall
  <2> QED
    BY <2>1, <2>2, <2>3, <2>4 DEF Contexts
<1>4. ASSUME Kept PROVE Contexts'
  <2>1. SetterFits'
    BY <1>4 DEF Kept, Contexts, SetterFits, NoCall
  <2> QED
    BY <1>4, <2>1 DEF Kept, Contexts
<1> QED
  BY <1>1, <1>2, <1>3, <1>4, StepIs, OpenedContexts

(* As long as no plugin's block stands in another plugin's, a plugin's     *)
(* setter only ever gets a context that this plugin created, also from a   *)
(* '}' that runs the last command again, for any number of plugins, blocks *)
(* and lines.                                                              *)
THEOREM SetterFitsHolds ==
  ASSUME Tidy, Nested = FALSE
  PROVE  Spec => []SetterFits
<1>1. Init => Blocks /\ Contexts
  BY BlocksInit, ContextsInit
<1>2. TypeOK /\ Blocks /\ Contexts /\ [Next]_vars => (Blocks /\ Contexts)'
  BY BlocksStep, ContextsStep
<1>3. Contexts => SetterFits
  BY DEF Contexts
<1> QED
  BY <1>1, <1>2, <1>3, TypeCorrect, PTL DEF Spec

-----------------------------------------------------------------------------
(* The definition that an instruction's variable is resolved to.           *)

(* A position of the stack that defines a name is that of a definition of  *)
(* the name in an open block.                                              *)
DefinedAt(n, op, base, name, p) ==
  \E i \in 1..n : \E j \in 1..Len(op[i].defs) :
     p = base[i] + j - 1 /\ op[i].defs[j].name = name

LEMMA DefAt ==
  ASSUME NEW n \in Nat, NEW m \in Nat, NEW s, NEW op, NEW base, LayersFit(n, m, s, op, base),
         NEW name \in Names, NEW p \in 1..m, s[p].name = name
  PROVE  DefinedAt(n, op, base, name, p)
<1>1. PICK i \in 1..n : base[i] <= p /\ p < base[i + 1]
  BY DEF LayersFit
<1> DEFINE a == base[i]  b == base[i + 1]  d == Len(op[i].defs)
<1>2. i \in 1..(n + 1) /\ i + 1 \in 1..(n + 1)
  OBVIOUS
<1>3. a \in Nat /\ b \in Nat /\ d \in Nat /\ b = a + d + 1 /\ a <= p /\ p < b
  BY <1>1, <1>2 DEF LayersFit
<1>4. s[b - 1] = Mark /\ \A j \in 1..d : s[a + j - 1] = op[i].defs[j]
  BY DEF LayersFit
<1> HIDE DEF a, b, d
<1>5. p # b - 1
  BY <1>4, ConfAssumption DEF Mark
<1>6. p - a + 1 \in 1..d /\ p = a + (p - a + 1) - 1
  BY <1>3, <1>5
<1>7. op[i].defs[p - a + 1].name = name
  BY <1>4, <1>6
<1> QED
  BY <1>6, <1>7 DEF a, d, DefinedAt

(* The first position of the stack that defines a name is that of the      *)
(* first definition in the innermost block that defines it.                *)
Innermost(n, op, name, k, j) ==
  /\ k \in 1..n /\ j \in 1..Len(op[k].defs) /\ op[k].defs[j].name = name
  /\ \A i \in 1..n : \A l \in 1..Len(op[i].defs) :
       op[i].defs[l].name = name => k < i \/ (k = i /\ j <= l)

FirstIs(m, s, name, q, d) ==
  q \in 1..m /\ s[q] = d /\ \A p \in 1..m : s[p].name = name => q <= p

LEMMA FirstAt ==
  ASSUME NEW n \in Nat, NEW m \in Nat, NEW s, NEW op, NEW base, LayersFit(n, m, s, op, base),
         NEW name \in Names, NEW k \in 1..n, NEW j, Innermost(n, op, name, k, j)
  PROVE  FirstIs(m, s, name, base[k] + j - 1, op[k].defs[j])
<1>1. base[k] + j - 1 \in 1..m /\ s[base[k] + j - 1] = op[k].defs[j]
  BY DEF LayersFit, Innermost
<1>2. ASSUME NEW p \in 1..m, s[p].name = name PROVE base[k] + j - 1 <= p
  <2>1. PICK i \in 1..n : \E l \in 1..Len(op[i].defs) :
           p = base[i] + l - 1 /\ op[i].defs[l].name = name
    BY <1>2, DefAt, SMTT(30) DEF DefinedAt
  <2>2. PICK l \in 1..Len(op[i].defs) : p = base[i] + l - 1 /\ op[i].defs[l].name = name
    BY <2>1
  <2>3. k < i \/ (k = i /\ j <= l)
    BY <2>2 DEF Innermost
  <2> DEFINE a == base[k]  b == base[k + 1]  c == base[i]  d == Len(op[k].defs)
  <2>4. k \in 1..(n + 1) /\ k + 1 \in 1..(n + 1) /\ i \in 1..(n + 1) /\ Len(op[i].defs) \in Nat
    <3>1. Len(op[i].defs) \in Nat
      BY DEF LayersFit
    <3> QED
      BY <3>1
  <2>5. a \in Nat /\ b \in Nat /\ c \in Nat /\ d \in Nat /\ b = a + d + 1
    BY <2>4 DEF LayersFit
  <2>6. j \in 1..d /\ l \in Nat /\ 1 <= l /\ p = c + l - 1
    BY <2>2, <2>4 DEF Innermost
  <2>7. CASE k = i
    <3>1. a = c /\ j <= l
      BY <2>3, <2>7
    <3> HIDE DEF a, b, c, d
    <3>2. a + j - 1 <= p
      BY <2>5, <2>6, <3>1
    <3> QED
      BY <3>2 DEF a
  <2>8. CASE k < i
    <3>1. b <= c
      <4>1. k + 1 = i \/ k + 1 < i
        BY <2>8
      <4>2. k + 1 < i => b < c
        BY <2>4 DEF LayersFit
      <4> HIDE DEF a
      <4> QED
        BY <2>5, <4>1, <4>2
    <3> HIDE DEF a, b, c, d
    <3>2. a + j - 1 <= p
      BY <2>5, <2>6, <3>1
    <3> QED
      BY <3>2 DEF a
  <2> QED
    BY <2>3, <2>7, <2>8
<1> QED
  BY <1>1, <1>2 DEF FirstIs

LEMMA Looked ==
  ASSUME TypeOK, Blocks, Layers, block > 0, open[block + 1].defs = <<>>, NEW name \in Names
  PROVE  GetVarValue(name) = InText(name)
<1> DEFINE in == {i \in DOMAIN open : DefsOf(open[i].defs, name) # {}}
           D  == DefsOf(varStack, name)
<1>1. PICK base \in [1..(block + 1) -> 1..(Len(varStack) + 1)] :
        LayersAt(block, varStack, open, base)
  BY DEF Layers, Layered
<1>2. /\ block \in Nat /\ Len(varStack) \in Nat /\ varStack \in Seq(Defs \cup {Mark})
      /\ DOMAIN varStack = 1..Len(varStack) /\ DOMAIN open = 1..(block + 1)
      /\ \A i \in 1..block : Len(open[i].defs) \in Nat
  BY BlockDefs, HeadOpen DEF Blocks
<1>3. LayersFit(block, Len(varStack), varStack, open, base)
  BY <1>1, <1>2, LayersAre
<1>4. \A i \in 1..block : DOMAIN open[i].defs = 1..Len(open[i].defs)
                          /\ open[i].defs \in Seq(Defs \cup {Mark})
  <2> TAKE i \in 1..block
  <2>1. open[i].defs \in Seq(Defs)
    BY <1>2, HeadOpen DEF Blocks
  <2> QED
    BY <2>1, LenProperties, DefsInStack
<1>5. \A i \in in : i \in 1..block
  <2> TAKE i \in in
  <2>1. DefsOf(open[block + 1].defs, name) = {}
    BY DEF DefsOf
  <2>2. i \in 1..(block + 1) /\ i # block + 1
    BY <1>2, <2>1
  <2> QED
    BY <1>2, <2>2
<1>6. CASE in = {}
  <2>1. D = {}
    <3> SUFFICES ASSUME NEW p \in D PROVE FALSE
      OBVIOUS
    <3>1. p \in 1..Len(varStack) /\ varStack[p].name = name
      BY <1>2 DEF DefsOf
    <3>2. PICK i \in 1..block : \E j \in 1..Len(open[i].defs) : open[i].defs[j].name = name
      <4>1. DefinedAt(block, open, base, name, p)
        BY <1>2, <1>3, <3>1, DefAt
      <4> QED
        BY <4>1 DEF DefinedAt
    <3>3. DefsOf(open[i].defs, name) # {}
      BY <1>4, <3>2 DEF DefsOf
    <3>4. i \in DOMAIN open
      BY <1>2
    <3> QED
      BY <1>6, <3>3, <3>4
  <2> QED
    BY <1>6, <2>1 DEF GetVarValue, FirstDef, InText
<1>7. CASE in # {}
  <2> DEFINE k == Min(in)  E == DefsOf(open[k].defs, name)  j == Min(E)
  <2>1. k \in in /\ \A i \in in : k <= i
    <3>1. in \in SUBSET Nat
      BY <1>2, <1>5
    <3> HIDE DEF in
    <3> QED
      BY <1>7, <3>1, MinIn
  <2>2. k \in 1..block /\ E # {}
    BY <1>5, <2>1
  <2>3. j \in E /\ (\A l \in E : j <= l) /\ FirstDef(open[k].defs, name) = open[k].defs[j]
    BY <1>4, <2>2, FirstDefIs
  <2>4. InText(name) = open[k].defs[j]
    BY <1>7, <2>3 DEF InText
  <2>5. j \in 1..Len(open[k].defs) /\ open[k].defs[j].name = name
    BY <1>4, <2>2, <2>3 DEF DefsOf
  <2> HIDE DEF k, j
  <2>6. ASSUME NEW i \in 1..block, NEW l \in 1..Len(open[i].defs), open[i].defs[l].name = name
        PROVE  k < i \/ (k = i /\ j <= l)
    <3>1. i \in DOMAIN open /\ l \in DefsOf(open[i].defs, name)
      BY <1>2, <1>4, <2>6 DEF DefsOf
    <3>2. i \in in
      BY <3>1
    <3> HIDE DEF in, E
    <3>3. k <= i /\ k \in Nat /\ i \in Nat
      BY <1>2, <2>1, <2>2, <3>2
    <3>4. CASE k = i
      BY <2>3, <3>1, <3>4 DEF E
    <3>5. CASE k # i
      BY <3>3, <3>5
    <3> QED
      BY <3>4, <3>5
  <2> HIDE DEF E, in
  <2> DEFINE q == base[k] + j - 1
  <2>7. /\ q \in 1..Len(varStack) /\ varStack[q] = open[k].defs[j]
        /\ \A p \in 1..Len(varStack) : varStack[p].name = name => q <= p
    <3>1. Innermost(block, open, name, k, j)
      BY <2>2, <2>5, <2>6 DEF Innermost
    <3>2. k \in 1..block /\ block \in Nat /\ Len(varStack) \in Nat
      BY <1>2, <2>2
    <3>3. FirstIs(Len(varStack), varStack, name, q, open[k].defs[j])
      BY <1>3, <3>1, <3>2, FirstAt
    <3> QED
      BY <3>3 DEF FirstIs
  <2> HIDE DEF q
  <2>8. q \in D /\ (\A p \in D : q <= p) /\ D \in SUBSET Nat
    BY <1>2, <2>5, <2>7 DEF DefsOf
  <2>9. Min(D) = q /\ D # {}
    <3> HIDE DEF D
    <3> QED
      BY <2>8, MinIs
  <2>10. GetVarValue(name) = varStack[q]
    BY <2>9 DEF GetVarValue, FirstDef
  <2> QED
    BY <2>4, <2>7, <2>10
<1> QED
  BY <1>6, <1>7

LEMMA ScopesInit == Init => Scopes
<1> SUFFICES ASSUME Init PROVE Scopes
  OBVIOUS
<1>1. block = 0 /\ bcData = NULL /\ open[block + 1] = File /\ File.defs = <<>>
  BY DEF Init, File
<1>2. seen[1] = seen[2]
  BY DEF Init
<1> QED
  BY <1>1, <1>2 DEF Scopes, VarsScoped

LEMMA OpenedScopes ==
  ASSUME Tops = 1, TypeOK, Blocks, Scopes, NEW cmd \in Cmds, NEW g \in Currs, Opened(cmd, g)
  PROVE  Scopes'
<1> DEFINE b == [ctx |-> CtxOf(cmd, g), plg |-> cmd.plg, defs |-> <<>>]
<1>1. /\ cmd.kind = "block" /\ Written(cmd) /\ open' = <<b>> \o open /\ block' = block + 1
      /\ tops' = IF Len(open) = 1 THEN tops + 1 ELSE tops
      /\ seen' = <<NoDef, NoDef>>
  BY DEF Opened
<1>2. Len(open) = block + 1 /\ block \in Nat /\ Head(open) = open[1]
      /\ (Head(open).ctx # NULL <=> block > 0)
  BY OpenInside
<1>3. tops \in Nat
  BY Scalars
<1> HIDE DEF b
<1>4. \A i \in 1..Len(open) : open'[i + 1] = open[i]
  BY <1>1, PushOpen
<1>5. open'[block' + 1] = open[block + 1]
  <2>1. block + 1 \in 1..Len(open)
    BY <1>2
  <2> QED
    BY <1>1, <1>2, <1>4, <2>1
<1>6. open[block + 1].defs = <<>> /\ tops' # 0
  <2>1. CASE block > 0
    BY <1>1, <1>2, <1>3, <2>1 DEF Scopes
  <2>2. CASE block = 0
    <3>1. Head(open).ctx = NULL /\ NULL # First /\ Len(open) = 1
      BY <1>2, <2>2 DEF NULL, First
    <3>2. tops < 1
      <4>1. CASE cmd.plg = Main
        BY <1>1, <4>1 DEF Written
      <4>2. CASE cmd.plg # Main
        BY <1>1, <3>1, <4>2 DEF Written
      <4> QED
        BY <4>1, <4>2
    <3>3. tops = 0
      BY <1>3, <3>2
    <3> QED
      BY <1>1, <3>1, <3>3 DEF Scopes
  <2> QED
    BY <1>2, <2>1, <2>2
<1>7. VarsScoped'
  BY <1>1 DEF VarsScoped
<1> QED
  BY <1>5, <1>6, <1>7 DEF Scopes

LEMMA ScopesStep ==
  ASSUME Tidy, Tops = 1, TypeOK, Blocks, Layers, Scopes, [Next]_vars
  PROVE  Scopes'
<1>1. block \in Nat /\ Len(open) = block + 1
  BY DEF Blocks
<1>2. ASSUME NEW cmd \in Cmds, NEW arg \in Names \cup {Lit}, Ran(cmd, arg) PROVE Scopes'
  <2>1. block > 0 /\ UNCHANGED <<tops, block, bcData, open>>
        /\ seen' = IF arg = Lit THEN <<NoDef, NoDef>> ELSE <<GetVarValue(arg), InText(arg)>>
    BY <1>2 DEF Ran
  <2>2. arg # Lit => GetVarValue(arg) = InText(arg)
    BY <2>1, Looked DEF Scopes
  <2>3. VarsScoped'
    BY <2>1, <2>2 DEF VarsScoped
  <2> QED
    BY <2>1, <2>3 DEF Scopes
<1>3. ASSUME Closed PROVE Scopes'
  <2>1. /\ block > 0 /\ block' = block - 1 /\ open' = Tail(open) /\ tops' = tops
        /\ seen' = <<NoDef, NoDef>>
    BY <1>3 DEF Closed, BlockEnd
  <2>2. tops # 0 /\ open[block + 1].defs = <<>>
    BY <1>1, <2>1 DEF Scopes
  <2>3. open'[block' + 1] = open[block + 1]
    <3> DEFINE B == [ctx : 0..Len(plgOf), plg : Plugins \cup {Main}, defs : Seq(Defs)]
    <3>1. open \in Seq(B) /\ open # <<>>
      BY DEF TypeOK
    <3> HIDE DEF B
    <3>2. Len(open') = Len(open) - 1 /\ \A i \in 1..Len(open') : open'[i] = open[i + 1]
      BY <2>1, <3>1, HeadTailProperties
    <3>3. block \in 1..Len(open') /\ block' + 1 = block
      BY <1>1, <2>1, <3>2
    <3> QED
      BY <3>2, <3>3
  <2>4. VarsScoped'
    BY <2>1 DEF VarsScoped
  <2> QED
    BY <2>1, <2>2, <2>3, <2>4 DEF Scopes
<1>4. ASSUME NEW name \in Names, NEW from \in Names \cup {Lit}, NEW g \in Currs,
             Defined(name, from, g)
      PROVE  Scopes'
  <2> DEFINE e == Elem(name, from)
  <2>1. /\ e \in Defs /\ open' = [open EXCEPT ![1].defs = <<e>> \o @]
        /\ UNCHANGED <<block, bcData, tops>> /\ seen' = <<NoDef, NoDef>>
        /\ g \in {"node", "stale"}
    BY <1>4 DEF Defined
  <2> HIDE DEF e
  <2>2. \A i \in 2..Len(open) : open'[i] = open[i]
    BY <2>1, OpenDefined
  <2>3. tops # 0
    <3>1. CASE node
      BY <1>1, <3>1 DEF Scopes, Blocks
    <3>2. CASE ~ node
      <4>1. g \in Garbage /\ (g = "stale" => bcData # NULL)
        BY <3>2 DEF Currs
      <4>2. g = "stale"
        BY <2>1, <4>1, ConfAssumption
      <4> QED
        BY <4>1, <4>2 DEF Scopes
    <3> QED
      BY <3>1, <3>2
  <2>4. block > 0 => open'[block + 1] = open[block + 1]
    BY <1>1, <2>2
  <2>5. VarsScoped'
    BY <2>1 DEF VarsScoped
  <2> QED
    BY <2>1, <2>3, <2>4, <2>5 DEF Scopes
<1>5. ASSUME Kept PROVE Scopes'
  BY <1>5 DEF Kept, Scopes, VarsScoped
<1> QED
  BY <1>2, <1>3, <1>4, <1>5, StepIs, OpenedScopes

(* With one block at the top level, as in the sample plume.conf, the value *)
(* an instruction gets is that of the definition in the innermost block    *)
(* around it, for any names, nesting, number of lines and definitions, and *)
(* with definitions by other variables too.  A second top-level block      *)
(* would drop what is defined between the two (plm_conf_var_block_push     *)
(* empties the stack when no block is open).                               *)
THEOREM VarsScopedHolds ==
  ASSUME Tidy, Tops = 1
  PROVE  Spec => []VarsScoped
<1>1. Init => Blocks /\ Layers /\ Scopes
  BY BlocksInit, LayersInit, ScopesInit
<1>2. TypeOK /\ Blocks /\ Layers /\ Scopes /\ [Next]_vars => (Blocks /\ Layers /\ Scopes)'
  BY BlocksStep, LayersStep, ScopesStep
<1>3. Scopes => VarsScoped
  BY DEF Scopes
<1> QED
  BY <1>1, <1>2, <1>3, TypeCorrect, PTL DEF Spec
=============================================================================
