SPECIFICATION CoreSpec
CONSTANTS
    Texts <- ArrivingTexts
    Wires <- ArrivingWires
    Components <- ComposedParts
    Policies <- Ceilings
    Weight <- Weights
    Documents <- ReadableDocuments
    Carriers <- ReadableCarriers
    CanonicalDocument <- EmittedDocument
    CanonicalCarrier <- EmittedCarrier
    MaxDocument <- LongestDocument
    MaxMessageBytes <- LargestMessage
    Incoming <- SomeArtifacts
    IncomingCarriers <- SomeCarriers
    Prior <- Contents
    Limits <- Bounds
    Algorithms <- WireValues
    BlobLen <- Lengths
    FormatCeiling <- SmallFormat
    PlatformMaximum <- SmallPlatform
INVARIANTS DecomposedRightly JoinExact TranscodingKeeps RefusalsJustified
PROPERTIES EncodingFaithful
CHECK_DEADLOCK FALSE
