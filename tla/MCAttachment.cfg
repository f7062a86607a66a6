SPECIFICATION DownloadSpec
CONSTANTS
    Blobs = {b1}
    Owners = {o1}
    x = x
    y = y
    Bytes = {x, y}
    Zero = x
    Digests <- MCDigests
    MaxBytes = 2
    ChunkSize = 1
    NoBlob = NoBlob
    NoMeta = NoMeta
    NoFile = NoFile
    Grants = {g1}
    Calls = {c1, c2}
    Files = {f1, f2, f3}
    NoGrant = NoGrant
    RangeSize = 1
SYMMETRY Symmetry
INVARIANTS BlobIsDeclared UploadIsResumable FilesArePrefixes GrantsEndWithContact DownloadInv
PROPERTIES AcknowledgedBytesKept CompleteFileKept
