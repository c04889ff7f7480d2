----------------------------- MODULE EngineArgs -----------------------------
(***************************************************************************)
(* An engine container's argv and environment, and the operations that the *)
(* runtime adapters and the engineOverrides merge perform on them.         *)
(*                                                                         *)
(* A token of argv is [flag, value]: a bare flag has value NoValue, the    *)
(* equals form has both, a positional token has flag "".  A value is the   *)
(* tuple of its parts.  Short aliases (-tp) are read as their long names.  *)
(* The environment is the list of its variables: their order is part of    *)
(* the pod, and of two of one name the last is the one that counts.        *)
(***************************************************************************)
EXTENDS Integers, Sequences, SequencesExt, FiniteSetsExt

NoValue == <<>>

Flag(f) == [flag |-> f, value |-> NoValue]
Word(v) == [flag |-> "", value |-> v]

Bare(a) == a.flag # "" /\ a.value = NoValue

\* The bare flag at position i is followed by its value.
TwoArg(args, i) ==
    /\ Bare(args[i])
    /\ i < Len(args)
    /\ args[i + 1].flag = ""

\* The token at position i is the value of the flag before it.
IsValueOf(args, i) == i > 1 /\ TwoArg(args, i - 1)

Slots(args, i) == IF TwoArg(args, i) THEN {i, i + 1} ELSE {i}

At(args, f) == {i \in DOMAIN args : args[i].flag = f}

ValueAt(args, i) == IF TwoArg(args, i) THEN args[i + 1].value ELSE args[i].value

\* args without the tokens at the positions in drop.
Without(args, drop) ==
    FoldLeftDomain(LAMBDA acc, i : IF i \in drop THEN acc ELSE Append(acc, args[i]), <<>>, args)

-----------------------------------------------------------------------------
\* Reading a flag: hasArg, argValues (the values, and whether some occurrence
\* has none), positiveParallelSize and the boolean-flag check.

hasArg(args, f) == At(args, f) # {}

argValues(args, f) == {ValueAt(args, i) : i \in {j \in At(args, f) : ValueAt(args, j) # NoValue}}

malformed(args, f) == \E i \in At(args, f) : ValueAt(args, i) = NoValue

Once(args, f) == ~malformed(args, f) /\ Cardinality(At(args, f)) <= 1

\* The values that parse as positive integers.
Number == [v \in {<<"1">>, <<"2">>, <<"17">>} |->
             CASE v = <<"1">> -> 1 [] v = <<"2">> -> 2 [] v = <<"17">> -> 17]

\* {} on an error, else the one size declared or the fallback.
positiveParallelSize(args, f, fallback) ==
    IF ~hasArg(args, f) THEN {fallback}
    ELSE IF ~Once(args, f) THEN {}
    ELSE {Number[v] : v \in argValues(args, f) \cap DOMAIN Number}

validateVLLMBooleanArg(args, f) ==
    /\ Cardinality(At(args, f)) <= 1
    /\ \A i \in At(args, f) : Bare(args[i]) /\ ValueAt(args, i) \notin {<<"true">>, <<"false">>, <<"0">>, <<"1">>}

-----------------------------------------------------------------------------
\* Writing a flag.

(* Mutant: a flag that is there is said again. *)
AppendFlag(args, f) == Append(args, Flag(f))

UpsertFlag(args, f) ==
    IF Flag(f) \in ToSet(args) THEN args ELSE Append(args, Flag(f))

\* The first occurrence is rewritten: after a bare flag whatever token follows
\* is replaced, an equals form becomes two tokens.
UpsertArgPair(args, f, v) ==
    LET i == SelectInSeq(args, LAMBDA a : a.flag = f) IN
    IF i = 0 THEN args \o <<Flag(f), Word(v)>>
    ELSE IF ~Bare(args[i])
    THEN SubSeq(args, 1, i - 1) \o <<Flag(f), Word(v)>> \o SubSeq(args, i + 1, Len(args))
    ELSE IF i = Len(args) THEN Append(args, Word(v))
    ELSE [args EXCEPT ![i + 1] = Word(v)]

-----------------------------------------------------------------------------
\* The environment.

Var(n, v) == [name |-> n, value |-> v]

EnvNames(env) == {e.name : e \in ToSet(env)}

envByName(env) ==
    [n \in EnvNames(env) |-> env[Max({i \in DOMAIN env : env[i].name = n})].value]

EnvValue(env, n) == IF n \in EnvNames(env) THEN envByName(env)[n] ELSE ""

\* The first variable of the name is rewritten where it stands.
UpsertEnv(env, var) ==
    LET i == SelectInSeq(env, LAMBDA e : e.name = var.name) IN
    IF i = 0 THEN Append(env, var) ELSE [env EXCEPT ![i] = var]

removeEnv(env, n) == SelectSeq(env, LAMBDA e : e.name # n)

-----------------------------------------------------------------------------
\* The engineOverrides merge.  What the adapter added or changed is its own;
\* what the template declared and the adapter left alone is the user's.

argsByFlag(args) ==
    [f \in {a.flag : a \in ToSet(args)} \ {""} |-> ValueAt(args, Max(At(args, f)))]

AdapterFlags(pre, post) ==
    LET old == argsByFlag(pre) new == argsByFlag(post) IN
    {f \in DOMAIN new : f \notin DOMAIN old \/ old[f] # new[f]}

UserFlags(pre, post) == DOMAIN argsByFlag(pre) \ AdapterFlags(pre, post)

suppressArgs(args, suppress, adapter) ==
    Without(args, UNION {Slots(args, i) : i \in {j \in DOMAIN args :
                                                   args[j].flag \in suppress \cap adapter}})

replaceArgFlag(args, f, replacement) ==
    LET i == SelectInSeq(args, LAMBDA a : a.flag = f) IN
    IF i = 0 THEN args \o replacement
    ELSE SubSeq(args, 1, i - 1) \o replacement
           \o SubSeq(args, i + Cardinality(Slots(args, i)), Len(args))

overrideArgs(args, overrides, adapter, user) ==
    FoldLeftDomain(
        LAMBDA acc, i :
            LET f == overrides[i].flag
                entry == SubSeq(overrides, i, Max(Slots(overrides, i))) IN
            IF IsValueOf(overrides, i) \/ f \in user THEN acc
            ELSE IF f # "" /\ f \in adapter THEN replaceArgFlag(acc, f, entry)
            ELSE acc \o entry,
        args, overrides)

AdapterEnv(pre, post) ==
    {n \in EnvNames(post) : n \notin EnvNames(pre) \/ envByName(post)[n] # envByName(pre)[n]}

UserEnv(pre, post) == EnvNames(pre) \ AdapterEnv(pre, post)

suppressEnv(env, suppress, adapter) ==
    SelectSeq(env, LAMBDA e : e.name \notin suppress \cap adapter)

overrideEnv(env, overrides, adapter, user) ==
    FoldLeft(LAMBDA acc, var : IF var.name \in adapter THEN UpsertEnv(acc, var)
                               ELSE IF var.name \in user THEN acc
                               ELSE Append(acc, var),
             env, overrides)

\* The merge itself, on the engine container before and after the adapter.
applyEngineInjectionOverrides(pre, post, o) ==
    LET flags == AdapterFlags(pre.args, post.args)
        names == AdapterEnv(pre.env, post.env) IN
    [post EXCEPT
        !.args = overrideArgs(suppressArgs(@, o.suppressArgs, flags), o.args,
                              flags, UserFlags(pre.args, post.args)),
        !.env  = overrideEnv(suppressEnv(@, o.suppressEnv, names), o.env,
                             names, UserEnv(pre.env, post.env))]
=============================================================================
