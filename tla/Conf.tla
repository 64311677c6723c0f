-------------------------------- MODULE Conf --------------------------------
(***************************************************************************)
(* The configuration loader of a worker: plm_conf_load reads plume.conf    *)
(* line by line (base/plm_conf.c), keeps the context of the current block  *)
(* and a stack of variables, runs the setter of each instruction and       *)
(* registers the context of each block (base/plm_ctx.c); plm_ctx_destroy   *)
(* frees the contexts when the worker leaves.  A line is what the scanner  *)
(* makes of it: a command with its parameter and its brace, a closing      *)
(* brace, or a variable definition.                                        *)
(***************************************************************************)
EXTENDS Naturals, Integers, Sequences, FiniteSetsExt

CONSTANTS
    Plugins,    \* plugins that load_plugin can load, each with one block command
    Names,      \* names of variables
    Braces,     \* how a '{' or '}' stands: "yes", "no", "lost" (a blank follows it)
    Nested,     \* may a plugin's block stand inside a plugin's block?
    Tops,       \* how many blocks stand at the top level
    Strays,     \* may the file have a '}' that closes nothing?
    Links,      \* may a variable be defined by another one, $a=$b?
    Garbage,    \* what memory that is not initialised, or freed, may hold
    MaxLines    \* bound: lines read

Main  == "main"
NULL  == 0      \* no context
First == 1      \* &main_ctx; a plugin's contexts are numbered from 2
Lit   == "lit"  \* a parameter, or a variable's value, written out

ASSUME ConfAssumption ==
    /\ Main \notin Plugins /\ Lit \notin Names
    /\ Braces \subseteq {"yes", "no", "lost"}
    /\ Garbage \subseteq {"null", "stale", "wild"}
    /\ {Nested, Strays, Links} \subseteq BOOLEAN
    /\ Tops \in Nat /\ MaxLines \in Nat

VARIABLES
    pc,      \* "read", "loaded", "gone", "abort", "crash", "norecord" (a crash)
    nline,   \* lines read
    block,   \* the loader's count of open blocks
    node,    \* curr_ctx_node # NULL
    bcData,  \* bc_data of the one node that every block of a top-level block shares
    depth,   \* length of ctx_stack
    varStack, \* var_stack, top first: block marks and definitions
    cl,      \* the command line that parse_ins left on the C stack
    loaded,  \* plugins that load_plugin has loaded
    plgOf,   \* plgOf[c]: the plugin that created context c
    inited,  \* has the main context been registered?
    ctxRec,  \* ctx_record, top first
    mcCtxs,  \* main_ctx.mc_ctxs, front first
    freed,   \* freed[c]: times c_free was called on context c
    open,    \* (history) the blocks open in the text, innermost first
    tops,    \* (history) blocks opened at the top level
    call,    \* (history) the setter this line has run and the context it got
    seen     \* (history) the definition this line's variable was resolved to

state == <<block, node, bcData, depth, varStack, cl, loaded, plgOf, inited, ctxRec, mcCtxs>>
vars == <<pc, nline, state, freed, open, tops, call, seen>>

Cmds   == [kind : {"block", "set"}, plg : Plugins \cup {Main}]
              \cup [kind : {"load"}, plg : Plugins]
NoCmd  == [kind |-> "none", plg |-> Main]
NoCall == [plg |-> Main, ctx |-> NULL, want |-> NULL]
NoDef  == [name |-> Lit, val |-> 0, want |-> 0, line |-> 0]
Mark   == [name |-> Lit, val |-> 0, want |-> 0, line |-> -1]

(* A definition: val is the line whose text is the variable's value, want  *)
(* (history) the line whose text the file asks for.                        *)
Defs   == [name : Names, val : 1..MaxLines, want : 0..MaxLines, line : 1..MaxLines]
File   == [ctx |-> NULL, plg |-> Main, defs |-> <<>>]

Init ==
    /\ pc = "read" /\ nline = 0 /\ block = 0 /\ depth = 0
    /\ node = FALSE /\ bcData = NULL
    /\ varStack = <<>> /\ cl = NoCmd /\ loaded = {}
    /\ plgOf = <<Main>> /\ inited = FALSE /\ ctxRec = <<>> /\ mcCtxs = <<>>
    /\ freed = [c \in 1..(MaxLines + 1) |-> 0]
    /\ open = <<File>> /\ tops = 0 /\ call = NoCall /\ seen = <<NoDef, NoDef>>

-----------------------------------------------------------------------------
(* Variables.  plm_conf_get_var_value takes the first definition of the    *)
(* name from the top of the stack; InText, the history's own rule, takes   *)
(* it from the innermost block that is open in the text.                   *)

DefsOf(s, name) == {i \in DOMAIN s : s[i].name = name}

FirstDef(s, name) ==
    IF DefsOf(s, name) = {} THEN NoDef ELSE s[Min(DefsOf(s, name))]

GetVarValue(name) == FirstDef(varStack, name)

InText(name) ==
    LET in == {i \in DOMAIN open : DefsOf(open[i].defs, name) # {}}
    IN  IF in = {} THEN NoDef ELSE FirstDef(open[Min(in)].defs, name)

Marks == {i \in DOMAIN varStack : varStack[i] = Mark}

VarBlockPush == <<Mark>> \o (IF block = 0 THEN <<>> ELSE varStack)

(* Mutant of VarBlockPop: the pop takes one element, not up to the mark.   *)
VarBlockPopOne == IF varStack = <<>> THEN <<>> ELSE Tail(varStack)

VarBlockPop ==
    IF Marks = {} THEN <<>> ELSE SubSeq(varStack, Min(Marks) + 1, Len(varStack))

-----------------------------------------------------------------------------
(* Contexts.  A record keeps the list that its level's contexts go into;   *)
(* the "sub" list is computed from that list's own address and so is that  *)
(* list again: every context lands in mc_ctxs.                             *)

Levels(parent) == {i \in DOMAIN ctxRec : parent \in {ctxRec[i].parent, ctxRec[i].ctx}}

LevelFound(parent) == ~inited \/ ctxRec = <<>> \/ Levels(parent) # {}

RecordPush(parent, c) ==
    LET new == <<[parent |-> parent, ctx |-> c]>>
        at  == Min(Levels(parent))
    IN  IF ctxRec = <<>> THEN new
        ELSE IF parent = ctxRec[at].parent THEN new \o SubSeq(ctxRec, at + 1, Len(ctxRec))
        ELSE new \o SubSeq(ctxRec, at, Len(ctxRec))

(* Its allocations (99-101, 167) never fail here: the -1 they return is    *)
(* ignored by plm_conf_cmd_line_push, and the context stays unregistered.  *)
CtxRegister(plg, parent, c) ==
    IF ~inited
    THEN /\ inited' = TRUE
         /\ UNCHANGED <<ctxRec, mcCtxs>>
    ELSE /\ ctxRec' = RecordPush(parent, c)
         /\ mcCtxs' = <<[ctx |-> c, parent |-> parent, within |-> Head(open).ctx]>> \o mcCtxs
         /\ UNCHANGED inited

-----------------------------------------------------------------------------
(* One line.                                                               *)

Stop(how) == pc' = how /\ UNCHANGED <<nline, state, freed, open, tops, call, seen>>

Known(cmd) == cmd.plg = Main \/ cmd.plg \in loaded

(* Loading a plugin fails without its file; of the main setters those that *)
(* count their parameters do (plm_work_thread_cpu_affinity_set to          *)
(* plm_zeromem_set).                                                       *)
MayFail(cmd) == cmd.kind = "load" \/ cmd = [kind |-> "set", plg |-> Main]

(* plm_conf_set_cmd: a block command has no setter; load_plugin names the  *)
(* plugin in its parameter, here in the command.                           *)
SetCmd(cmd, ctx, want) ==
    /\ loaded' = IF cmd.kind = "load" THEN loaded \cup {cmd.plg} ELSE loaded
    /\ call' = IF cmd.kind = "set"
               THEN [plg |-> cmd.plg, ctx |-> ctx, want |-> want]
               ELSE NoCall

(* What the loader does with the brace that parse_ins reports.             *)
BlockBeg == block' = block + 1 /\ depth' = depth + 1 /\ varStack' = VarBlockPush

(* Mutants of BlockEnd: the variables are not popped; the context of the   *)
(* enclosing block comes back, while a '}' still runs the last command.    *)
BlockEndKeepsVars(ctx) ==
    /\ depth' = IF depth > 0 THEN depth - 1 ELSE 0
    /\ node' = (depth' > 0)
    /\ block' = block - 1
    /\ bcData' = ctx
    /\ UNCHANGED varStack

BlockEndRestores(ctx) ==
    /\ depth' = IF depth > 0 THEN depth - 1 ELSE 0
    /\ node' = (depth' > 0)
    /\ block' = block - 1
    /\ varStack' = VarBlockPop
    /\ bcData' = open[Min({2, Len(open)})].ctx

BlockEnd(ctx) ==
    /\ depth' = IF depth > 0 THEN depth - 1 ELSE 0
    /\ node' = (depth' > 0)
    /\ block' = block - 1
    /\ varStack' = VarBlockPop
    /\ bcData' = ctx

(* plm_conf_parse_line leaves curr_ctx uninitialised when there is no      *)
(* current node: the line then finds NULL there, the node of the block     *)
(* before, or something that cannot be read.                               *)
Currs == IF node THEN {"node"} ELSE {g \in Garbage : g = "stale" => bcData # NULL}

Curr(g) == IF g \in {"node", "stale"} THEN bcData ELSE NULL

(* A line with a command: plm_conf_parse_ins, plm_conf_cmd_line_push.      *)
InsRuns(cmd, arg, brace, g) ==
    LET parent == Curr(g)
        c      == IF cmd.plg = Main THEN First ELSE Len(plgOf) + 1
        ctx    == IF cmd.kind = "block" THEN c ELSE parent
    IN
    /\ IF cmd.kind = "block"
       THEN CtxRegister(cmd.plg, parent, c)
       ELSE UNCHANGED <<inited, ctxRec, mcCtxs>>
    /\ plgOf' = IF ctx > Len(plgOf) THEN Append(plgOf, cmd.plg) ELSE plgOf
    /\ SetCmd(cmd, ctx, Head(open).ctx)
    /\ seen' = IF arg = Lit THEN <<NoDef, NoDef>> ELSE <<GetVarValue(arg), InText(arg)>>
    /\ bcData' = ctx /\ node' = TRUE /\ cl' = cmd
    /\ IF brace = "yes" THEN BlockBeg ELSE UNCHANGED <<block, depth, varStack>>
    /\ tops' = IF cmd.kind = "block" /\ Len(open) = 1 THEN tops + 1 ELSE tops
    /\ open' = IF brace = "no" THEN open
               ELSE <<[ctx |-> ctx, plg |-> cmd.plg, defs |-> <<>>]>> \o open

InsFails(cmd, arg, g) ==
    \/ ~Known(cmd) /\ cmd.kind # "load"
    \/ cmd.kind # "block" /\ Curr(g) = NULL
    \/ arg # Lit /\ GetVarValue(arg) = NoDef
    \/ MayFail(cmd)
    \/ cmd.kind = "block" /\ cmd.plg # Main     \* the context's malloc

InsWorks(cmd, arg, g) ==
    /\ Known(cmd) \/ cmd.kind = "load"
    /\ cmd.kind = "block" \/ Curr(g) # NULL
    /\ arg = Lit \/ GetVarValue(arg) # NoDef
    /\ cmd.kind = "block" => LevelFound(Curr(g))

(* The file's author writes main's instructions in main's block and a      *)
(* plugin's instructions in its block, after the plugin is loaded.         *)
Written(cmd) ==
    LET in == Head(open) IN
    CASE cmd.kind = "block" /\ cmd.plg = Main -> Len(open) = 1 /\ tops < Tops
      [] cmd.kind = "block" /\ cmd.plg # Main ->
           \/ in.ctx = First
           \/ in.ctx # NULL /\ Nested
           \/ in.ctx = NULL /\ 0 < tops /\ tops < Tops
      [] cmd.kind = "load"  -> in.ctx = First
      [] cmd.kind = "set"   -> in.ctx # NULL /\ in.plg = cmd.plg

BracesOf(cmd) == IF cmd.kind = "block" THEN Braces ELSE {"no"}

ReadIns(cmd, arg, brace, g) ==
    /\ pc = "read" /\ nline < MaxLines
    /\ Written(cmd)
    /\ arg # Lit => cmd.kind = "set"
    /\ \/ g = "wild" /\ Stop("crash")
       \/ g # "wild" /\ InsFails(cmd, arg, g) /\ Stop("abort")
       \/ g # "wild" /\ cmd.kind = "block" /\ ~LevelFound(Curr(g)) /\ Stop("norecord")
       \/ /\ g # "wild" /\ InsWorks(cmd, arg, g)
          /\ nline' = nline + 1
          /\ InsRuns(cmd, arg, brace, g)
          /\ UNCHANGED <<pc, freed>>

(* A line with a '}': parse_ins pushes no word, and plm_conf_set_cmd looks *)
(* up the name that its uninitialised cl holds, that of an earlier line or *)
(* none that is known.                                                     *)
ReadClose(brace, g, h) ==
    /\ pc = "read" /\ nline < MaxLines
    /\ Len(open) > 1 \/ Strays
    /\ \/ "wild" \in {g, h} /\ Stop("crash")
       \/ g # "wild" /\ h = "null" /\ Stop("abort")
       \/ /\ g # "wild" /\ h = "stale" /\ cl # NoCmd
          /\ nline' = nline + 1
          /\ SetCmd(cl, Curr(g), Head(open).ctx)
          /\ IF brace = "yes"
             THEN BlockEnd(Curr(g))
             ELSE /\ bcData' = Curr(g) /\ node' = TRUE
                  /\ UNCHANGED <<block, depth, varStack>>
          /\ open' = IF Len(open) > 1 THEN Tail(open) ELSE open
          /\ seen' = <<NoDef, NoDef>>
          /\ UNCHANGED <<pc, cl, plgOf, inited, ctxRec, mcCtxs, freed, tops>>

(* A line with a definition: plm_conf_parse_variable.  A link looks up     *)
(* the name that is being defined.                                         *)
LinkedTo(name, from) == GetVarValue(name)

ReadDefine(name, from, g) ==
    LET old  == LinkedTo(name, from)
        here == nline + 1
        elem == [name |-> name, line |-> here,
                 val  |-> IF from = Lit THEN here ELSE old.val,
                 want |-> IF from = Lit THEN here ELSE InText(from).val]
    IN
    /\ pc = "read" /\ nline < MaxLines
    /\ from # Lit => Links
    /\ \/ g \in {"null", "wild"} /\ Stop("crash")
       \/ g \in {"node", "stale"} /\ from # Lit /\ old = NoDef /\ Stop("abort")
       \/ /\ g \in {"node", "stale"}
          /\ from = Lit \/ old # NoDef
          /\ nline' = here
          /\ varStack' = <<elem>> \o varStack
          /\ open' = [open EXCEPT ![1].defs = <<elem>> \o @]
          /\ call' = NoCall
          /\ seen' = <<NoDef, NoDef>>
          /\ UNCHANGED <<pc, block, node, bcData, depth, cl, loaded, plgOf, inited,
                         ctxRec, mcCtxs, freed, tops>>

Eof ==
    /\ pc = "read"
    /\ pc' = IF block > 0 THEN "abort" ELSE "loaded"
    /\ call' = NoCall
    /\ UNCHANGED <<nline, state, freed, open, tops, seen>>

-----------------------------------------------------------------------------
(* plm_ctx_destroy.  The callback of the first node frees every node of    *)
(* the list, then reads c_free from its own; the loop goes on from the     *)
(* freed node's ln_next, which still is the next node, is NULL, or points  *)
(* nowhere.                                                                *)

Visited(g) == IF g = "stale" \/ mcCtxs = <<>> THEN DOMAIN mcCtxs ELSE {1}

CtxDestroy(g) ==
    /\ pc = "loaded" /\ inited
    /\ \/ mcCtxs # <<>> /\ g = "wild" /\ pc' = "crash" /\ UNCHANGED freed
       \/ /\ g # "wild"
          /\ pc' = "gone"
          /\ freed' = [c \in DOMAIN freed |->
                          freed[c] + Cardinality({i \in Visited(g) : mcCtxs[i].ctx = c})
                                   + (IF c = First THEN 1 ELSE 0)]
    /\ UNCHANGED <<nline, state, open, tops, call, seen>>

Terminated ==
    /\ \/ pc \in {"gone", "abort", "crash", "norecord"}
       \/ pc = "loaded" /\ ~inited
    /\ UNCHANGED vars

Next ==
    \/ \E cmd \in Cmds, arg \in Names \cup {Lit}, g \in Currs :
          \E brace \in BracesOf(cmd) : ReadIns(cmd, arg, brace, g)
    \/ \E brace \in Braces, g \in Currs, h \in Garbage : ReadClose(brace, g, h)
    \/ \E name \in Names, from \in Names \cup {Lit}, g \in Currs : ReadDefine(name, from, g)
    \/ Eof
    \/ \E g \in Garbage : CtxDestroy(g)
    \/ Terminated

Spec == Init /\ [][Next]_vars

-----------------------------------------------------------------------------
(* Properties.                                                             *)

(* Every variable keeps the shape that the loader's structures give it.    *)
TypeOK ==
    /\ pc \in {"read", "loaded", "gone", "abort", "crash", "norecord"}
    /\ nline \in 0..MaxLines /\ block \in Int /\ depth \in Nat
    /\ node \in BOOLEAN /\ bcData \in 0..Len(plgOf)
    /\ varStack \in Seq(Defs \cup {Mark})
    /\ cl \in Cmds \cup {NoCmd} /\ loaded \subseteq Plugins
    /\ plgOf \in Seq(Plugins \cup {Main}) /\ plgOf # <<>> /\ inited \in BOOLEAN
    /\ ctxRec \in Seq([parent : 0..Len(plgOf), ctx : 1..Len(plgOf)])
    /\ mcCtxs \in Seq([ctx : 1..Len(plgOf), parent : 0..Len(plgOf), within : 0..Len(plgOf)])
    /\ inited = FALSE => mcCtxs = <<>>
    /\ freed \in [1..(MaxLines + 1) -> Nat]
    /\ open \in Seq([ctx : 0..Len(plgOf), plg : Plugins \cup {Main}, defs : Seq(Defs)])
    /\ open # <<>> /\ tops \in Nat
    /\ call \in [plg : Plugins \cup {Main}, ctx : 0..Len(plgOf), want : 0..Len(plgOf)]

(* The count of open blocks, the stack of contexts and the marks on the    *)
(* stack of variables are three records of the same thing, and each has as *)
(* many levels as the file has open blocks (plm_conf_load's switch).       *)
StacksAgree ==
    /\ depth = block
    /\ Cardinality(Marks) = block
    /\ Len(open) = block + 1

(* The value given to an instruction is that of the innermost definition   *)
(* of the name in the blocks that are open at its line                     *)
(* (plm_conf_get_var_value over what plm_conf_var_block_pop has left).     *)
VarsScoped == seen[1] = seen[2]

(* A plugin's setter casts the context it is given to its own type, so it  *)
(* never gets another plugin's, also when a '}' runs the command of an     *)
(* earlier line once more (plm_conf_set_cmd).                              *)
SetterFits == call.plg # Main => call.ctx # NULL /\ plgOf[call.ctx] = call.plg

(* Popping records until the level of the parent is found does find it     *)
(* (plm_ctx_register, "pop levels until we find the correct level").       *)
RecordsSuffice == pc # "norecord"

(* A file that loads has closed every block it opened (the check of block  *)
(* at the end of plm_conf_load).  A stray brace makes the count negative   *)
(* and a blank after a brace hides it, so this fails: conf_unclosed.cfg.   *)
LoadedMeansClosed == pc = "loaded" => Len(open) = 1

(* No context is freed twice (plm_ctx_destroy).                            *)
FreedAtMostOnce == \A c \in DOMAIN freed : freed[c] <= 1

(* Every context has been freed when the worker is shut down (plm_ctx.h:   *)
(* "free ctx when shutdown").                                              *)
AllFreed == pc = "gone" => \A c \in DOMAIN plgOf : freed[c] >= 1

(* A context is registered under the context of the block it stands in     *)
(* (plm_ctx.h: "the parent block ctx").                                    *)
ParentIsOpenBlock == \A i \in DOMAIN mcCtxs : mcCtxs[i].parent = mcCtxs[i].within

(* The context of a block inside a plugin's block is in that plugin's      *)
(* list, not in the main list (plm_plugin.h: "all sub context linked in    *)
(* cl_list").                                                              *)
SubContextsLinked == \A i \in DOMAIN mcCtxs : mcCtxs[i].within \in {NULL, First}

(* A variable that is defined by another one has that one's value          *)
(* (plm_conf_parse_variable, "link variables").                            *)
LinkTakesNamed == \A i \in DOMAIN varStack : varStack[i].val = varStack[i].want
=============================================================================
