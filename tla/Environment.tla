----------------------------- MODULE Environment -----------------------------
(***************************************************************************)
(* The environment of a process (process.c): a table of at most ENV_MAX     *)
(* variables that setenv() adds to or replaces in, getenv() searches, a     *)
(* forked child gets a copy of, execv() keeps and a new process starts      *)
(* without.  Of a text only its identity and its length are kept.           *)
(***************************************************************************)
EXTENDS Integers, Sequences, FiniteSetsExt

CONSTANTS
  Procs,        \* process slots
  Keys, Vals,   \* texts: records of an identity and a length
  EnvMax,       \* ENV_MAX
  KeyMax,       \* ENV_KEY_MAX
  ValMax,       \* ENV_VAL_MAX
  Sizes         \* buffer sizes that getenv() is called with

\* What the constants have to satisfy.
EnvironmentAssumption ==
  /\ \A t \in Keys \cup Vals : t.len \in Nat
  /\ {EnvMax, KeyMax, ValMax} \subseteq Nat \ {0} /\ Sizes \subseteq Nat

VARIABLES
  used,     \* the processes that exist
  env,      \* env_keys and env_vals, env_count long
  meant,    \* history: the value each key was last given successfully, in each process
  got       \* the last result of getenv(): the process, the key, the size, the value

vars == <<used, env, meant, got>>

Unset == [of |-> "", len |-> -1]     \* not a text
NoAnswer == <<>>

Init ==
  /\ \E p \in Procs : used = {p}
  /\ env = [p \in Procs |-> <<>>]
  /\ meant = [p \in Procs |-> [k \in Keys |-> Unset]]
  /\ got = NoAnswer

\* env_copy(): at most max - 1 characters.
EnvCopy(t, max) == [t EXCEPT !.len = IF @ > max - 1 THEN max - 1 ELSE @]

Places(p, k) == {i \in DOMAIN env[p] : env[p][i][1] = k}

\* Faulty variant: a key that is there is added again.
SetAppends(p, k, v) == Append(env[p], <<k, EnvCopy(v, ValMax)>>)
\* The table after the value is replaced, or the variable added.
Set(p, k, v) ==
  IF Places(p, k) # {} THEN [env[p] EXCEPT ![Min(Places(p, k))] = <<k, EnvCopy(v, ValMax)>>]
  ELSE Append(env[p], <<EnvCopy(k, KeyMax), EnvCopy(v, ValMax)>>)

\* process_setenv(): refuses an empty or long key, a long value, and a full table.
Setenv(p, k, v) ==
  /\ p \in used /\ k.len > 0 /\ k.len < KeyMax /\ v.len < ValMax
  /\ Places(p, k) # {} \/ Len(env[p]) < EnvMax
  /\ env' = [env EXCEPT ![p] = Set(p, k, v)]
  /\ meant' = [meant EXCEPT ![p][k] = v]
  /\ got' = NoAnswer /\ UNCHANGED used

\* process_getenv(): the first match, as much of it as the buffer holds.
Getenv(p, k, size) ==
  /\ p \in used /\ size > 0
  /\ got' = IF Places(p, k) = {} THEN <<p, k, size, Unset>>
            ELSE <<p, k, size, EnvCopy(env[p][Min(Places(p, k))][2], size)>>
  /\ UNCHANGED <<used, env, meant>>

\* process_fork(): the child's table is a copy.
Inherited(p) == env[p]

Fork(p, c) ==
  /\ p \in used /\ c \notin used
  /\ used' = used \cup {c}
  /\ env' = [env EXCEPT ![c] = Inherited(p)] /\ meant' = [meant EXCEPT ![c] = meant[p]]
  /\ got' = NoAnswer

\* A process that is spawned starts with a wiped slot.
SpawnNew(c) ==
  /\ c \notin used
  /\ used' = used \cup {c} /\ got' = NoAnswer
  /\ UNCHANGED <<env, meant>>

\* process_release() wipes the slot.
Release(p) ==
  /\ p \in used
  /\ used' = used \ {p}
  /\ env' = [env EXCEPT ![p] = <<>>]
  /\ meant' = [meant EXCEPT ![p] = [k \in Keys |-> Unset]]
  /\ got' = NoAnswer

Next ==
  \/ \E p \in Procs :
       \/ \E k \in Keys : \E v \in Vals : Setenv(p, k, v)
       \/ \E k \in Keys : \E size \in Sizes : Getenv(p, k, size)
       \/ \E c \in Procs : Fork(p, c)
       \/ SpawnNew(p) \/ Release(p)

Spec == Init /\ [][Next]_vars

-----------------------------------------------------------------------------
(* Properties *)

\* getenv() answers with the value the variable was last given by the process, or by an
\* ancestor before it forked, cut to the buffer; no variable is there twice and no table
\* has more than ENV_MAX of them.
EnvironmentExact ==
  /\ \A p \in Procs :
       /\ Len(env[p]) <= EnvMax
       /\ \A k \in Keys : IF meant[p][k] = Unset THEN Places(p, k) = {}
                          ELSE {env[p][i][2] : i \in Places(p, k)} = {meant[p][k]}
       /\ \A i, j \in DOMAIN env[p] : env[p][i][1] = env[p][j][1] => i = j
  /\ got # NoAnswer =>
       LET m == meant[got[1]][got[2]] IN
       IF m = Unset THEN got[4] = Unset
       ELSE got[4].of = m.of /\ got[4].len <= m.len
            /\ (got[4].len = m.len \/ got[4].len = got[3] - 1)
=============================================================================
