-------------------------- MODULE MCClientFiles --------------------------
(***************************************************************************)
(* ClientFiles for TLC: an agent that is added from an invite, two that    *)
(* are added by hand, and three certificates, one with a system root.      *)
(* Either both adds run, with one other command, or both other commands.   *)
(***************************************************************************)
EXTENDS ClientFiles, TLC

CONSTANTS box, lab, hut, real, other, authority

Invites == box :> real
Configurations == {NoEntries, lab :> Unpinned @@ hut :> Unpinned @@ NoEntries}
Recorded == {box :> other @@ NoPins}

TwoAtATime == {Adder \cup {u} : u \in User} \cup {User}

Symmetry == Permutations(Adder) \cup Permutations(User) \cup Permutations(Conn)
=============================================================================
