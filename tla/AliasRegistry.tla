---------------------------- MODULE AliasRegistry ----------------------------
(***************************************************************************)
(* What the callers of lib/pty_process.py are promised: a registry, from   *)
(* alias to child, that changes in single steps.  A name is given to one   *)
(* child at a time, a child has one name, and only a stop takes it away.   *)
(***************************************************************************)
EXTENDS Functions

CONSTANTS Aliases, Children

VARIABLE registry

RegistryInit == registry = << >>

Enter(alias, child) ==
  /\ alias \notin DOMAIN registry /\ child \notin Range(registry)
  /\ registry' = [a \in DOMAIN registry \cup {alias} |-> IF a = alias THEN child ELSE registry[a]]

Remove(alias) == registry' = Restrict(registry, DOMAIN registry \ {alias})

RegistryNext ==
  \/ \E alias \in Aliases, child \in Children : Enter(alias, child)
  \/ \E alias \in Aliases : Remove(alias)

RegistrySpec == RegistryInit /\ [][RegistryNext]_registry
=============================================================================
