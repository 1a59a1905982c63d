SPECIFICATION MediaSpec
CONSTANTS
    a = a
    b = b
    v = v
    n1 = n1
    n2 = n2
    w1 = w1
    a1 = a1
    up = up
    Worker = Worker
    Api = Api
    Job = {a, b, v}
    Name = {n1, n2}
    Upload = {up}
    Importer = {w1, a1}
    Submissions = {{a, v}, {a}}
    KindOf <- TwoImages
    NameOf <- Names
    ProcessOf <- OneEach
    NoJob = NoJob
    NoAsset = NoAsset
    Unlinked = Unlinked
INVARIANTS
    MediaTypeOK
    FinalFileComplete
    PartHasOwner
PROPERTIES
    DownloadedIsComplete
    ImageSuccessSavesAsset
