----------------------------- MODULE MCSources -----------------------------
(* Small instances of Sources: a snapshot of two addresses, a mirror.      *)
EXTENDS Sources

MCOrder == <<"snapshot", "mirror">>

\* The first address of the snapshot is dead, the other may be; the mirror has
\* the work or not, and its third page or none.
MCUpstreams ==
    {u \in [Image -> Kind] :
        /\ u[<<"snapshot", 0>>] = "absent"
        /\ u[<<"snapshot", 1>>] \in {"image", "absent"}
        /\ u[<<"mirror", 0>>] \in {"image", "absent"}
        /\ u[<<"mirror", 1>>] = "absent"
        /\ u[<<"mirror", 2>>] \in {"image", "junk"}
        /\ u[<<"mirror", 0>>] = "absent" => u[<<"mirror", 2>>] = "junk"}

\* Users have fetched a page that the mirror has no more, and one that it may
\* serve cut off.  A lookup may miss them all the same.
MCStored == {{<<"mirror", 1>>, <<"mirror", 2>>}}
=============================================================================
