SPECIFICATION Spec
CONSTANTS
    p1 = p1
    p2 = p2
    r1 = r1
    r2 = r2
    i1 = i1
    i2 = i2
    None = None
    Publishers <- MCPublishers
    Readers <- MCReaders
    Images <- MCImages
    MaxVersion = 3
SYMMETRY FirmwareSymmetry
INVARIANTS ManifestHasImage DownloadsSucceed PublicationDurable NoOrphanImage
