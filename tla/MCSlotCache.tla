---------------------------- MODULE MCSlotCache ----------------------------
(* SlotCache with small constants.  The prompts share none, some or all of *)
(* their beginning with each other and with what is sampled after them.    *)
EXTENDS SlotCache

TwoSlots == 0 .. 1
OneSlot == {0}

\* Both fill a batch; one slot's prompt is split when another slot generates.
ShortPrompts == {<<2, 1>>, <<2, 2>>}

\* One that is empty, one the cache has at another place, one to be cut.
ManyPrompts == {<<>>, <<1, 2>>, <<3, 1, 2>>, <<2, 1, 3, 1, 2, 2, 1>>}

All == {-1}
=============================================================================
