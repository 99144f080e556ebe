------------------------- MODULE WriteBehindProofs --------------------------
(***************************************************************************)
(* What WriteBehind promises, for any cells and values.  OfflineStore and  *)
(* SettingsStore implement it, so each promise is one of theirs.           *)
(***************************************************************************)
EXTENDS WriteBehind, TLAPS

LEMMA BufferInitGood == BufferInit => BufferTypeOK /\ NothingIsLost
BY DEF BufferInit, BufferTypeOK, NothingIsLost, NothingWaits

LEMMA BufferStepGood ==
    ASSUME BufferTypeOK, NothingIsLost, [BufferNext]_bufferVars
    PROVE  BufferTypeOK' /\ NothingIsLost'
<1>1. CASE Ask /\ BufferTypeOK'
  <2> SUFFICES ASSUME NEW c \in Cells \ raced'
               PROVE  IF waiting'[c] = {} THEN kept'[c] = wanted'[c]
                      ELSE wanted'[c] \in waiting'[c]
    BY <1>1 DEF NothingIsLost
  <2>1. CASE Same(c)
    BY <1>1, <2>1 DEF Ask, Same, NothingIsLost
  <2>2. CASE Asked(c)
    BY <2>2 DEF Asked
  <2>3. QED
    BY <1>1, <2>1, <2>2 DEF Ask
<1>2. CASE Write /\ BufferTypeOK'
  BY <1>2 DEF Write, NothingIsLost
<1>3. CASE Settle /\ BufferTypeOK'
  BY <1>3 DEF Settle, NothingIsLost, NothingWaits
<1>4. CASE Provide /\ BufferTypeOK'
  BY <1>4 DEF Provide, NothingIsLost
<1>5. CASE UNCHANGED bufferVars
  BY <1>5 DEF bufferVars, BufferTypeOK, NothingIsLost
<1>6. QED
  BY <1>1, <1>2, <1>3, <1>4, <1>5 DEF BufferNext

\* A change that a user was told is made is in Lance or on its way there: the
\* promise of the write buffer, whatever implements it.
THEOREM BufferLosesNothing == BufferSpec => []NothingIsLost
<1>1. BufferTypeOK /\ NothingIsLost /\ [BufferNext]_bufferVars
         => BufferTypeOK' /\ NothingIsLost'
  BY BufferStepGood
<1>2. QED
  BY <1>1, BufferInitGood, PTL DEF BufferSpec

\* What has reached Lance is not overwritten by what waited before it.
THEOREM BufferStaysKept == BufferSpec => StaysKept
<1>1. [BufferNext]_bufferVars => StaysSettled
  <2> SUFFICES ASSUME [BufferNext]_bufferVars,
                      NEW c \in Cells \ (raced \cup raced'),
                      waiting[c] = {}, kept'[c] # kept[c]
               PROVE  kept'[c] = wanted'[c]
    BY DEF StaysSettled
  <2>1. Write \/ Provide
    BY DEF BufferNext, Ask, Settle, bufferVars
  <2>2. CASE Write
    BY <2>2 DEF Write
  <2>3. CASE Provide
    BY <2>3 DEF Provide
  <2>4. QED
    BY <2>1, <2>2, <2>3
<1>2. QED
  BY <1>1, PTL DEF BufferSpec, StaysKept
=============================================================================
