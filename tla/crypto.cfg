SPECIFICATION Spec
CONSTANTS
 P = 43
 MaxMagnitude = 32
 MulMagnitude = 8
 CurveB = 7
 GeneratorX = 2
 GeneratorY = 12
 Order = 31
 Terms = {1, 3}
 Scales = {1, 3}
 Limbs = 4
 LimbBits = 4
 TopBits = 3
 WordBits = 7
 CrumbBits = 1
 C0 = 5
 C1 = 1
 LimbMagnitude = 4
 LimbMulMagnitude = 1
 Samples = {0, 1, 8, 4660, 8191, 32745, 32746, 32747, 32767}
 Operands = {1, 32746, 21845}
 MaxOps = 3
 LimbOrder = 233
 ScalarLimbs = 4
 ScalarLimbBits = 2
 ScalarOperands = {1, 2, 15, 16, 63, 64, 116, 117, 170, 200, 231, 232, 233, 234, 254, 255}
 ScalarBits = 5
 WindowA = 3
 WindowG = 4
 MultiplicandK = {1, 30}
 MultiplicandZ = {1, 3}
 Factors = {0, 1, 2, 5, 11, 15, 16, 21, 29, 30}
 GenRows = 3
 GenBits = 2
 NumsX = 12
 RngBytes = {0, 1, 3, 30, 31, 40, 43, 50}
 GenScalars = {0, 1, 12, 30}
 Seckeys = {0, 1, 5, 16, 30, 31, 40}
 Tweaks = {0, 1, 15, 30, 31}
 Messages = {0, 1, 17, 33}
 Nonces <- AllNonces
 SignatureNumbers = {0, 1, 2, 3, 5, 8, 11, 12, 15, 16, 17, 30, 31, 40}
 MaxTweaks = 2
 MaxTries = 1
 ByteBits = 5
 ScalarBytes = 2
 SizeBytes = 3
 DerOrder = 997
 SequenceTag = 12
 IntegerTag = 2
 DerNumbers = {0, 1, 15, 16, 31, 32, 511, 512, 996}
 DerBodies <- TestedBodies
 EditBytes = {0, 16, 17, 31}
 MaxEdits = 1
 ShaVectors <- TestedSha
 HmacVectors <- TestedHmac
 RngVectors <- TestedRng
 WriteSizes = {1, 8, 55, 64}
 Keys <- CosignerKeys
 K = 3
 Signers = {"a", "b", "c", "d", "stranger"}
 Signatures = {"odd", "even"}
 Genuine <- GenuineSigs
 Sizes = {10, 8, 1}
 Indices = {0, 4, 6, 7, 9}
 MaxSigs = 6
INVARIANT GroupLaw
INVARIANT PredicatesTrue
INVARIANT ChainExponent
INVARIANT LimbContract
INVARIANT ScalarContract
INVARIANT EcmultLaw
INVARIANT WnafForm
INVARIANT GenLaw
INVARIANT TweaksAgree
INVARIANT NeverIllegal
INVARIANT SignatureHolds
INVARIANT VerifiesExactly
INVARIANT DerCanonical
INVARIANT HashExact
INVARIANT VerifyExact
PROPERTY ImplementsThreshold
CHECK_DEADLOCK FALSE
