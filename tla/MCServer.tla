------------------------------ MODULE MCServer ------------------------------
(* Instances of the server: which requests arrive, and on which slots.     *)
EXTENDS ServerProperties

\* A completion and a streamed completion.
PairKind == 1 :> "COMPLETION" @@ 2 :> "STREAM"
PairIds == 1 :> <<11>> @@ 2 :> <<21>>

\* A completion with two prompts and a streamed one.
MultiKind == 1 :> "COMPLETION" @@ 2 :> "STREAM"
MultiIds == 1 :> <<11, 12>> @@ 2 :> <<21>>

\* An embedding, a streamed completion, a slot action and metrics.
MixedKind == 1 :> "EMBEDDING" @@ 2 :> "STREAM" @@ 3 :> "SLOT_ACTION" @@ 4 :> "METRICS"
MixedIds == 1 :> <<11>> @@ 2 :> <<21>> @@ 3 :> <<31>> @@ 4 :> <<41>>

\* A slot action between two completions.
SaveKind == 1 :> "COMPLETION" @@ 2 :> "SLOT_ACTION" @@ 3 :> "COMPLETION"
SaveIds == 1 :> <<11>> @@ 2 :> <<21>> @@ 3 :> <<31>>

\* An embedding and a streamed completion.
ApartKind == 1 :> "EMBEDDING" @@ 2 :> "STREAM"

OneLora == [r \in Request |-> "base"]
OwnLora == [r \in Request |-> r]

AnySlot == [r \in Request |-> NoId]
FirstSlot == [r \in Request |-> IF Kind[r] = "SLOT_ACTION" THEN 0 ELSE NoId]
=============================================================================
