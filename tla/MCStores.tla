------------------------------ MODULE MCStores ------------------------------
(***************************************************************************)
(* Instances for TLC of seven components that do not interact: the three   *)
(* ways to a database, the bitmap in shared memory, the framing of         *)
(* messages, the pool of objects, and the processes of the application.  A *)
(* behaviour is one of the component that part names, the variables of the *)
(* others keep one of their initial values.                                *)
(***************************************************************************)
EXTENDS PlatDbAccess, DBManager, PlatOraAccess, ShmBitmap, Framing, ObjectPool,
        ISGWApp, TLC

CONSTANTS t1, t2, t3, p1, p2, a1, a2, a3

VARIABLE part

ThreadSymmetry == Permutations({t1, t2})

MaxUins == p1 :> 4 @@ p2 :> 2

(* Objects are alike: the pool is filled with the first of them, in order. *)
InOrder == opQue = SubSeq(<<a1, a2>>, 1, Len(opQue))

Message(size, cmd) == [size |-> size, cmd |-> cmd]
Streams ==
    {<<Message(3, 1), a, b>> :
        a \in {Message(3, 3), Message(5, 2), Message(1, 0), Message(8, 1)},
        b \in {Message(4, 3), Message(6, 1)}}
    \cup {<<Message(4, 2), Message(3, 2), Message(4, 2)>>,
          <<Message(2, 0), Message(4, 3), Message(3, 1)>>}

Init ==
    /\ part \in {"db", "dm", "or", "bm", "fr", "op", "app"}
    /\ DbInit /\ DmInit /\ OrInit /\ BmInit
    /\ FrInit /\ OpInit /\ AppInit
    /\ part # "db" => ~dbRecent
    /\ part # "or" => orMissing = {}
    /\ part # "fr" => frMode = "len" /\ frStream[1].size = 4
    /\ InOrder
    /\ part # "app" => appNum = 0

dbRest == <<dmVars, orVars, bmVars, frVars, opVars, appVars>>
dmRest == <<dbVars, orVars, bmVars, frVars, opVars, appVars>>
orRest == <<dbVars, dmVars, bmVars, frVars, opVars, appVars>>
bmRest == <<dbVars, dmVars, orVars, frVars, opVars, appVars>>
frRest == <<dbVars, dmVars, orVars, bmVars, opVars, appVars>>
opRest == <<dbVars, dmVars, orVars, bmVars, frVars, appVars>>
appRest == <<dbVars, dmVars, orVars, bmVars, frVars, opVars>>

Next ==
    \/ part = "db" /\ DbNext /\ UNCHANGED <<part, dbRest>>
    \/ part = "dm" /\ DmNext /\ UNCHANGED <<part, dmRest>>
    \/ part = "or" /\ OrNext /\ UNCHANGED <<part, orRest>>
    \/ part = "bm" /\ BmNext /\ UNCHANGED <<part, bmRest>>
    \/ part = "fr" /\ FrNext /\ UNCHANGED <<part, frRest>>
    \/ part = "op" /\ OpNext /\ UNCHANGED <<part, opRest>>
    \/ part = "app" /\ AppNext /\ UNCHANGED <<part, appRest>>

Spec == Init /\ [][Next]_<<part, appVars, appRest>>

(* The variables of the component in question have their types.            *)
StoresTypeOK ==
    /\ part = "db" => DbTypeOK
    /\ part = "dm" => DmTypeOK
    /\ part = "or" => OrTypeOK
    /\ part = "bm" => BmTypeOK
    /\ part = "fr" => FrTypeOK
    /\ part = "op" => OpTypeOK
    /\ part = "app" => AppTypeOK
=============================================================================
