---------------------- MODULE UniccVtableClientProofs ----------------------
(***************************************************************************)
(* Proofs about UniccVtableClient, for any libraries, any platform, any    *)
(* number of references and clients that bind over a live table.           *)
(***************************************************************************)
EXTENDS UniccVtableClient, UniccVtableProofs

USE ClientAssumption

(* What is published is an open library of the published family; a filled  *)
(* slot of that family holds, directly or through its static, the          *)
(* library's own function.                                                 *)
Published ==
  \/ g_backend_type = UNICC_BACKEND_UNKNOWN /\ g_backend_handle = NULL /\ unicc = EmptyTable
  \/ g_backend_type \in Family /\ g_backend_handle \in Lib /\ refs[g_backend_handle] > 0

SlotExact(slot, l, fam) ==
  LET st == SlotStatic(family_of(fam), slot)
      fn == dlsym(l, fam, SlotSymbol[slot])
  IN  unicc[slot] = Install(st, fn) /\ s[st] = fn

BoundExact ==
  \A slot \in Slot :
    unicc[slot] # NULL /\ slot \in BoundSlot(family_of(g_backend_type)) =>
      SlotExact(slot, g_backend_handle, g_backend_type)

IInv == TypeOK /\ Published /\ BoundExact

-----------------------------------------------------------------------------
(* The initial states satisfy the invariant. *)
LEMMA InitIInv == Init => IInv
<1> SUFFICES ASSUME Init PROVE IInv
  OBVIOUS
<1>1. unicc = EmptyTable /\ EmptyTable \in [Slot -> SlotValue]
  BY DEF Init, vtableInit, EmptyTable, SlotValue
<1>2. TypeOK
  BY <1>1 DEF Init, vtableInit, TypeOK, vtableTypeOK
<1>3. Published
  BY <1>1 DEF Init, vtableInit, Published
<1>4. BoundExact
  BY <1>1 DEF BoundExact, EmptyTable
<1> QED
  BY <1>2, <1>3, <1>4 DEF IInv

(* The reference counts are all that opening and closing changes, and the  *)
(* published library stays open.                                           *)
LEMMA RefsStep ==
  ASSUME IInv, NEW l \in Lib, load(l) \/ unicc_loader_unload(l)
  PROVE  IInv'
<1> USE DEF IInv
<1>1. UNCHANGED <<unicc, s, g_backend_type, g_backend_handle, ret, rebound>>
  BY DEF load, unicc_loader_unload, vtableVars, clientVars
<1>2. refs \in [Lib -> Nat]
  BY DEF TypeOK, vtableTypeOK
<1>3. /\ refs' \in [Lib -> Nat]
      /\ \A k \in Lib : k = g_backend_handle /\ refs[k] > 0 => refs'[k] > 0
  <2>1. CASE load(l)
    BY <1>2, <2>1 DEF load, unicc_platform_dlopen
  <2>2. CASE unicc_loader_unload(l)
    BY <1>2, <2>2 DEF unicc_loader_unload, unicc_platform_dlclose
  <2> QED
    BY <2>1, <2>2
<1>4. TypeOK'
  BY <1>1, <1>3 DEF TypeOK, vtableTypeOK
<1>5. Published'
  BY <1>1, <1>3 DEF Published
<1>6. BoundExact'
  BY <1>1 DEF BoundExact, SlotExact
<1> QED
  BY <1>4, <1>5, <1>6

(* The result of unicc_vtable_init. *)
LEMMA ResultType ==
  ASSUME NEW l \in Lib
  PROVE  unicc_vtable_init_rc(l) \in
           {UNICC_OK, UNICC_ERR_SYMBOL_NOT_FOUND, UNICC_ERR_BACKEND_NOT_SUPPORTED}
BY DEF unicc_vtable_init_rc, unicc_loader_check_platform_support

(* A successful bind publishes the library it has filled the table from.   *)
LEMMA BindSucceeds ==
  ASSUME IInv, NEW l \in Lib, init(l), unicc_vtable_init_rc(l) = UNICC_OK
  PROVE  IInv'
<1> DEFINE type == unicc_loader_identify_backend(l)
           d == family_of(type)
<1>1. /\ type \in Family
      /\ g_backend_type' = type /\ g_backend_handle' = l
      /\ s' \in [Static -> Pointer \cup {NULL}]
      /\ unicc' \in [Slot -> SlotValue]
      /\ unicc' = BoundOver(l, d)
      /\ \A slot \in BoundSlot(d) :
           s'[SlotStatic(d, slot)] = dlsym(l, d.name, SlotSymbol[slot])
  BY InitRebinds DEF IInv, TypeOK, vtableTypeOK, init
<1>2. UNCHANGED refs /\ refs[l] > 0 /\ ret' = UNICC_OK /\ rebound' \in BOOLEAN
  BY DEF init
<1>3. d.name = type
  BY <1>1, RowName
<1> HIDE DEF type, d
<1>4. TypeOK'
  BY <1>1, <1>2 DEF IInv, TypeOK, vtableTypeOK
<1>5. Published'
  BY <1>1, <1>2 DEF Published
<1>6. BoundExact'
  <2> SUFFICES ASSUME NEW slot \in Slot, slot \in BoundSlot(family_of(g_backend_type'))
               PROVE  SlotExact(slot, g_backend_handle, g_backend_type)'
    BY DEF BoundExact
  <2>1. family_of(g_backend_type') = d
    BY <1>1 DEF d
  <2>2. slot \in BoundSlot(d)
    BY <2>1
  <2>3. unicc'[slot] = Install(SlotStatic(d, slot), dlsym(l, type, SlotSymbol[slot]))
    BY <1>1, <1>3, <2>2 DEF BoundOver
  <2>4. s'[SlotStatic(d, slot)] = dlsym(l, type, SlotSymbol[slot])
    BY <1>1, <1>3, <2>2
  <2> QED
    BY <1>1, <2>1, <2>3, <2>4 DEF SlotExact
<1> QED
  BY <1>4, <1>5, <1>6 DEF IInv

(* A failed one empties the table, or has not got as far as binding.       *)
LEMMA BindFails ==
  ASSUME IInv, NEW l \in Lib, init(l), unicc_vtable_init_rc(l) # UNICC_OK
  PROVE  /\ IInv'
         /\ UNCHANGED <<g_backend_type, g_backend_handle>>
         /\ unicc' = EmptyTable \/ UNCHANGED unicc
<1> USE DEF IInv
<1> DEFINE type == unicc_loader_identify_backend(l)
           d    == family_of(type)
<1>1. /\ UNCHANGED <<g_backend_type, g_backend_handle, refs>>
      /\ ret' = unicc_vtable_init_rc(l) /\ rebound' \in BOOLEAN
  BY DEF init, unicc_vtable_init
<1>2. CASE /\ type # UNICC_BACKEND_UNKNOWN
           /\ unicc_loader_check_platform_support = UNICC_OK
  <2>1. unicc_vtable_bind(l, d)
    BY <1>2 DEF init, unicc_vtable_init
  <2>2. ~CoreResolves(l, d)
    BY <1>2 DEF unicc_vtable_init_rc
  <2>3. unicc' = EmptyTable
    BY <2>1, <2>2 DEF unicc_vtable_bind
  <2>4. type \in Family /\ d.name = type
    BY <1>2, Identification, RowName
  <2> HIDE DEF type, d
  <2>5. \A st \in Static : StaticSymbol[st] \in Suffix
    BY DEF Static, StaticSymbol, Suffix
  <2>6. \A st \in Static : dlsym(l, d.name, StaticSymbol[st]) \in Pointer \cup {NULL}
    BY <2>4, <2>5, DlsymType
  <2>7. s' \in [Static -> Pointer \cup {NULL}]
    BY <2>1, <2>6 DEF unicc_vtable_bind, TypeOK, vtableTypeOK
  <2>8. EmptyTable \in [Slot -> SlotValue]
    BY DEF EmptyTable, SlotValue
  <2>9. TypeOK'
    BY <1>1, <2>3, <2>7, <2>8, ResultType DEF TypeOK, vtableTypeOK
  <2>10. Published'
    BY <1>1, <2>3 DEF Published
  <2>11. BoundExact'
    BY <2>3 DEF BoundExact, EmptyTable
  <2> QED
    BY <1>1, <2>3, <2>9, <2>10, <2>11
<1>3. CASE ~(/\ type # UNICC_BACKEND_UNKNOWN
             /\ unicc_loader_check_platform_support = UNICC_OK)
  <2>1. UNCHANGED <<s, unicc>>
    BY <1>3 DEF init, unicc_vtable_init
  <2>2. TypeOK'
    BY <1>1, <2>1, ResultType DEF TypeOK, vtableTypeOK
  <2>3. Published' /\ BoundExact'
    BY <1>1, <2>1 DEF Published, BoundExact, SlotExact
  <2> QED
    BY <1>1, <2>1, <2>2, <2>3
<1> QED
  BY <1>2, <1>3

(* A cleanup keeps the invariant. *)
LEMMA CleanupStep ==
  ASSUME IInv, cleanup
  PROVE  IInv'
<1>1. unicc' = EmptyTable /\ EmptyTable \in [Slot -> SlotValue]
  BY DEF cleanup, unicc_vtable_cleanup, EmptyTable, SlotValue
<1>2. TypeOK'
  BY <1>1 DEF IInv, cleanup, unicc_vtable_cleanup, TypeOK, vtableTypeOK
<1>3. Published' /\ BoundExact'
  BY <1>1 DEF cleanup, unicc_vtable_cleanup, Published, BoundExact, EmptyTable
<1> QED
  BY <1>2, <1>3 DEF IInv

(* The invariant holds for every client. *)
THEOREM Inductive == Spec => []IInv
<1>1. ASSUME IInv, [Next]_vars PROVE IInv'
  <2>1. CASE UNCHANGED vars
    BY <1>1, <2>1 DEF vars, clientVars, IInv, TypeOK, vtableTypeOK, Published, BoundExact, SlotExact
  <2> QED
    BY <1>1, <2>1, RefsStep, BindSucceeds, BindFails, CleanupStep DEF Next
<1> QED
  BY <1>1, InitIInv, PTL DEF Spec

-----------------------------------------------------------------------------
(* A filled slot whose contents are exact is sound. *)
LEMMA ExactIsSound ==
  ASSUME IInv, NEW slot \in Slot, unicc[slot] # NULL, g_backend_type \in Family,
         SlotExact(slot, g_backend_handle, g_backend_type)
  PROVE  SlotSound(slot, g_backend_handle, g_backend_type)
<1> DEFINE st == SlotStatic(family_of(g_backend_type), slot)
           fn == dlsym(g_backend_handle, g_backend_type, SlotSymbol[slot])
<1>1. g_backend_handle \in Lib /\ refs[g_backend_handle] > 0
  BY DEF IInv, Published, UNICC_BACKEND_UNKNOWN, Family
<1>2. st \in Static /\ StaticSignature[st] = NativeSignature(g_backend_type, SlotSymbol[slot])
  BY Routing
<1>3. fn \in Pointer \cup {NULL}
  BY <1>1, SlotSymbolType, DlsymType
<1>4. unicc[slot] = Install(st, fn) /\ s[st] = fn
  BY DEF SlotExact
<1> HIDE DEF st, fn
<1>5. fn # NULL /\ unicc[slot].through = st
      /\ unicc[slot].fn = IF st \in Wrapped THEN NULL ELSE fn
  BY <1>2, <1>3, <1>4, InstallType
<1>6. Target(slot) = fn
  BY <1>4, <1>5 DEF Target
<1> QED
  BY <1>1, <1>2, <1>5, <1>6 DEF SlotSound, fn

(* Reference counts never go negative and slots hold addresses, whatever   *)
(* the client does.                                                        *)
THEOREM TypeCorrect == Spec => []TypeOK
BY Inductive, PTL DEF IInv

(* For any libraries and any order of binds, failed ones and binds over a  *)
(* live table among them: the slots of the published family are sound.     *)
THEOREM Bound_Slots_Sound == Spec => []BoundSlotsSound
<1>1. IInv => BoundSlotsSound
  <2> SUFFICES ASSUME IInv, NEW slot \in Slot, unicc[slot] # NULL
               PROVE  /\ g_backend_type \in Family
                      /\ slot \in BoundSlot(family_of(g_backend_type)) =>
                           SlotSound(slot, g_backend_handle, g_backend_type)
    BY DEF BoundSlotsSound
  <2>1. g_backend_type \in Family
    BY DEF IInv, Published, EmptyTable
  <2> QED
    BY <2>1, ExactIsSound DEF IInv, BoundExact
<1> QED
  BY <1>1, Inductive, PTL

(* A bind that finds no live table starts from an empty one, so no slot is *)
(* left over from another family and a failed init leaves nothing.         *)
Clean ==
  /\ ~rebound => \A slot \in Slot :
       unicc[slot] # NULL => slot \in BoundSlot(family_of(g_backend_type))
  /\ FailedInitLeavesZeros

(* The table is clean until a client binds over it. *)
LEMMA CleanInductive == Spec => []Clean
<1>1. Init => Clean
  BY DEF Init, vtableInit, Clean, EmptyTable, FailedInitLeavesZeros
<1>2. ASSUME IInv, Clean, [Next]_vars PROVE Clean'
  <2>1. ASSUME NEW l \in Lib, init(l), unicc_vtable_init_rc(l) = UNICC_OK PROVE Clean'
    <3> DEFINE d == family_of(unicc_loader_identify_backend(l))
    <3> SUFFICES ASSUME ~rebound' PROVE Clean'
      BY DEF Clean, FailedInitLeavesZeros
    <3>1. g_backend_handle = NULL
      BY <2>1 DEF init
    <3>2. unicc = EmptyTable
      BY <1>2, <3>1, NullAssumption DEF IInv, Published
    <3>3. /\ g_backend_type' = unicc_loader_identify_backend(l)
          /\ unicc' = BoundTable(l, d)
      BY <1>2, <2>1, <3>2, InitBinds DEF init, IInv, TypeOK, vtableTypeOK
    <3>4. family_of(g_backend_type') = d
      BY <3>3
    <3> HIDE DEF d
    <3>5. \A slot \in Slot : unicc'[slot] # NULL => slot \in BoundSlot(d)
      BY <3>3 DEF BoundTable
    <3>6. ret' = UNICC_OK
      BY <2>1 DEF init
    <3> QED
      BY <3>4, <3>5, <3>6 DEF Clean, FailedInitLeavesZeros
  <2>2. ASSUME NEW l \in Lib, init(l), unicc_vtable_init_rc(l) # UNICC_OK PROVE Clean'
    <3> SUFFICES ASSUME ~rebound' PROVE Clean'
      BY DEF Clean, FailedInitLeavesZeros
    <3>1. g_backend_handle = NULL
      BY <2>2 DEF init
    <3>2. unicc = EmptyTable /\ g_backend_type = UNICC_BACKEND_UNKNOWN
      BY <1>2, <3>1, NullAssumption DEF IInv, Published
    <3>3. unicc' = EmptyTable /\ UNCHANGED <<g_backend_type, g_backend_handle>>
      BY <1>2, <2>2, <3>2, BindFails
    <3> QED
      BY <3>1, <3>2, <3>3 DEF Clean, FailedInitLeavesZeros, EmptyTable
  <2>3. CASE cleanup
    BY <2>3 DEF cleanup, unicc_vtable_cleanup, Clean, FailedInitLeavesZeros, EmptyTable
  <2>4. CASE \E l \in Lib : load(l) \/ unicc_loader_unload(l)
    BY <1>2, <2>4 DEF load, unicc_loader_unload, vtableVars, clientVars, Clean, FailedInitLeavesZeros
  <2>5. CASE UNCHANGED vars
    BY <1>2, <2>5 DEF vars, clientVars, Clean, FailedInitLeavesZeros
  <2> QED
    BY <1>2, <2>1, <2>2, <2>3, <2>4, <2>5 DEF Next
<1> QED
  BY <1>1, <1>2, Inductive, PTL DEF Spec

(* For any libraries, hybrid ones among them: without binding over a live  *)
(* table, no table ever mixes two families.                                *)
THEOREM Never_Mixed_Family == Spec => []NeverMixedFamily
<1>1. IInv /\ Clean => NeverMixedFamily
  <2> SUFFICES ASSUME IInv, Clean, ~rebound, NEW slot \in Slot, unicc[slot] # NULL
               PROVE  /\ g_backend_type \in Family
                      /\ SlotSound(slot, g_backend_handle, g_backend_type)
    BY DEF NeverMixedFamily
  <2>1. g_backend_type \in Family
    BY DEF IInv, Published, EmptyTable
  <2>2. SlotExact(slot, g_backend_handle, g_backend_type)
    BY DEF IInv, BoundExact, Clean
  <2> QED
    BY <2>1, <2>2, ExactIsSound
<1> QED
  BY <1>1, Inductive, CleanInductive, PTL

(* For any libraries: without binding over a live table, a failed init     *)
(* leaves an empty table and publishes nothing.                            *)
THEOREM Failed_Init_Leaves_Zeros == Spec => []FailedInitLeavesZeros
<1>1. Clean => FailedInitLeavesZeros
  BY DEF Clean
<1> QED
  BY <1>1, CleanInductive, PTL
=============================================================================
