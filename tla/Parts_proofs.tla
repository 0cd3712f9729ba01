---------------------------- MODULE Parts_proofs ----------------------------
(* The parts that share no state, side by side: a behaviour of all of them   *)
(* is one of each, so that what is proved of a part holds where the others   *)
(* move too.                                                                 *)
EXTENDS MCParts, Mcp_proofs, Waiters_proofs, QueryLibrary_proofs, StopHooks_proofs

(* A step of a part, or none.                                                *)
PolicyMoves  == [PolicyNext]_policyVars
KeysMove     == [KeysNext]_keyVars
PoolMoves    == [PoolNext]_poolVars
UsageMoves   == [UsageNext]_usageVars
LibraryMoves == [LibraryNext]_libraryVars
FlushMoves   == [FlushNext]_gateVars
ExportsMove  == [ExportsNext]_exportVars
DeepMoves    == [DeepNext]_deepVars
EncoderMoves == [EncoderNext]_encoderVars

LEMMA OnePartMoves ==
  ASSUME [PartsNext]_partVars
  PROVE  /\ PolicyMoves /\ KeysMove /\ PoolMoves /\ UsageMoves /\ LibraryMoves /\ FlushMoves /\ ExportsMove /\ DeepMoves
         /\ EncoderMoves /\ UNCHANGED which
<1>1. CASE UNCHANGED partVars
  BY <1>1 DEF partVars, PolicyMoves, KeysMove, PoolMoves, UsageMoves, LibraryMoves, FlushMoves, ExportsMove, DeepMoves,
              EncoderMoves
<1>2. CASE PolicyPart \/ KeysPart \/ PoolPart
  BY <1>2 DEF PolicyPart, KeysPart, PoolPart, PolicyMoves, KeysMove, PoolMoves, UsageMoves, LibraryMoves, FlushMoves,
              ExportsMove, DeepMoves, EncoderMoves
<1>3. CASE UsagePart \/ LibraryPart \/ FlushPart
  BY <1>3 DEF UsagePart, LibraryPart, FlushPart, PolicyMoves, KeysMove, PoolMoves, UsageMoves, LibraryMoves, FlushMoves,
              ExportsMove, DeepMoves, EncoderMoves
<1>4. CASE ExportsPart \/ DeepPart \/ EncoderPart
  BY <1>4 DEF ExportsPart, DeepPart, EncoderPart, PolicyMoves, KeysMove, PoolMoves, UsageMoves, LibraryMoves, FlushMoves,
              ExportsMove, DeepMoves, EncoderMoves
<1> QED BY <1>1, <1>2, <1>3, <1>4 DEF PartsNext

(* A behaviour of the parts side by side is a behaviour of each.             *)
THEOREM PartsAreApart ==
  PartsSpec => /\ PolicySpec /\ KeysSpec /\ PoolSpec /\ UsageSpec /\ LibrarySpec /\ FlushSpec /\ ExportsSpec /\ DeepSpec
               /\ EncoderSpec
<1>1. PartsInit => /\ PolicyInit /\ KeysInit /\ PoolInit /\ UsageInit /\ LibraryInit /\ FlushInit /\ ExportsInit /\ DeepInit
                   /\ EncoderInit
  BY DEF PartsInit
<1>2. [PartsNext]_partVars =>
        /\ [PolicyNext]_policyVars /\ [KeysNext]_keyVars /\ [PoolNext]_poolVars
        /\ [UsageNext]_usageVars /\ [LibraryNext]_libraryVars /\ [FlushNext]_gateVars
        /\ [ExportsNext]_exportVars /\ [DeepNext]_deepVars /\ [EncoderNext]_encoderVars
  BY OnePartMoves
  DEF PolicyMoves, KeysMove, PoolMoves, UsageMoves, LibraryMoves, FlushMoves, ExportsMove, DeepMoves, EncoderMoves
<1> QED
  BY <1>1, <1>2, PTL
  DEF PartsSpec, PolicySpec, KeysSpec, PoolSpec, UsageSpec, LibrarySpec, FlushSpec, ExportsSpec, DeepSpec, EncoderSpec

(* PartsTypeOK: each part keeps its types, for any number of threads, keys,  *)
(* names, processes and blocks, and whatever the bounds of the model are.    *)
THEOREM PartsAreTyped == PartsSpec => []PartsTypeOK
<1>1. PartsInit => which \in {"policy", "keys", "pool", "usage", "library", "flush", "exports", "deep", "encoder"}
  BY DEF PartsInit
<1>2. /\ which \in {"policy", "keys", "pool", "usage", "library", "flush", "exports", "deep", "encoder"}
      /\ [PartsNext]_partVars
      => (which \in {"policy", "keys", "pool", "usage", "library", "flush", "exports", "deep", "encoder"})'
  BY OnePartMoves
<1>3. /\ which \in {"policy", "keys", "pool", "usage", "library", "flush", "exports", "deep", "encoder"}
      /\ PolicyTypeOK /\ KeyTypeOK /\ PoolTypeOK /\ UsageTypeOK /\ LibraryTypeOK /\ FlushTypeOK /\ ExportTypeOK /\ DeepTypeOK
      /\ EncoderTypeOK
      => PartsTypeOK
  BY DEF PartsTypeOK
<1> QED
  BY <1>1, <1>2, <1>3, PartsAreApart, PolicyTypeCorrect, KeysTypeCorrect, PoolTypeCorrect, UsageTypeCorrect,
     LibraryTypeCorrect, FlushTypeCorrect, ExportTypeCorrect, DeepTypeCorrect, EncoderTypeCorrect, PTL
  DEF PartsSpec
=============================================================================
