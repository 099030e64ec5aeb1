------------------------------ MODULE ImplMap ------------------------------
(***************************************************************************)
(* What a function class of liboil promises its callers, without the       *)
(* array, the holes and the reallocations: a partial map from implement    *)
(* names to what they are bound to, and the function that callers reach    *)
(* through the slot.                                                        *)
(***************************************************************************)
CONSTANTS
    Names,      \* names of implements
    Funcs,      \* functions of implements
    Flags,      \* CPU feature words
    Unbound,    \* the value of a name that no implement has
    Ref         \* the function of the reference implement

\* What a name is bound to
Bindings == [impl : Funcs, flags : Flags]

VARIABLES
    bound,      \* name -> binding, or Unbound
    exported    \* the function the slot holds

vars == <<bound, exported>>

Init == /\ bound = [n \in Names |-> Unbound]
        /\ exported = Ref

\* oil_class_add_implement: bind a new name, or replace what it is bound to
Bind(n, b) == /\ bound' = [bound EXCEPT ![n] = b]
              /\ UNCHANGED exported

\* oil_class_remove_implement: the slot is left alone
Unbind(n) == /\ bound[n] # Unbound
             /\ bound' = [bound EXCEPT ![n] = Unbound]
             /\ UNCHANGED exported

\* oil_class_clear_implements: the slot is left alone here too
UnbindAll == /\ bound' = [n \in Names |-> Unbound]
             /\ UNCHANGED exported

\* oil_class_activate_implement with a name that is bound
Export(n) == /\ bound[n] # Unbound
             /\ exported' = bound[n].impl
             /\ UNCHANGED bound

\* oil_class_activate_implement with NULL
ExportRef == /\ exported' = Ref
             /\ UNCHANGED bound

Next == \/ \E n \in Names, b \in Bindings : Bind(n, b)
        \/ \E n \in Names : Unbind(n) \/ Export(n)
        \/ UnbindAll
        \/ ExportRef

Spec == Init /\ [][Next]_vars
=============================================================================
