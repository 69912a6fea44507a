------------------------------- MODULE MCOffice -------------------------------
(***************************************************************************)
(* Two parts of the office for TLC: the media that the records of the      *)
(* academy refer to, and the registers of its lessons.  In each behaviour  *)
(* one of them is used, the other rests; they share no state.  Registers:  *)
(* two lessons, two students, and one mark that another client writes too. *)
(***************************************************************************)
EXTENDS MCMedia, Register

CONSTANTS l1, l2, s1   \* lessons, a student

VARIABLE part   \* what is used

RegisterRests == RegisterInit /\ engine = "demo" /\ \A l \in Sittings, p \in Enrolled : mark[l][p] = NoMark
MediaRests == Init /\ row \union bytes = {} /\ \A o \in Owners : ref[o] = None
OfficeInit ==
    \/ part = "media" /\ Init /\ RegisterRests
    \/ part = "register" /\ RegisterInit /\ MediaRests
OfficeNext ==
    \/ part = "media" /\ Next /\ UNCHANGED <<part, registerVars>>
    \/ part = "register" /\ RegisterNext /\ UNCHANGED <<part, vars>>
    \/ part = "register" /\ UNCHANGED <<part, vars, registerVars>>   \* it may be left as it is
OfficeSpec == OfficeInit /\ [][OfficeNext]_<<part, vars, registerVars>> /\ \A p \in Requests : WF_vars(part = "media" /\ Step(p))

-----------------------------------------------------------------------------
MCShown == <<l1, l2>>
MCContested == {<<l1, s1>>}
MCWindows == {{l2}, {l1, l2}}
=============================================================================
