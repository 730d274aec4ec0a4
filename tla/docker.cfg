SPECIFICATION Spec
CHECK_DEADLOCK FALSE
CONSTANTS
    p1 = p1  p2 = p2  f1 = f1  f2 = f2  m1 = m1  m2 = m2
    push1 = push1  push2 = push2  pushl = pushl  get = get  head = head  getb = getb  headb = headb
    getr = getr  headr = headr  getbr = getbr  headbr = headbr  getd = getd  pushb = pushb  tagpages = tagpages
    copy = copy  mount = mount  del = del  untag = untag
    img1 = img1  img2 = img2  list = list
    Patches <- MCPatches  Finals <- MCFinals  Monos <- MCMonos  MonoContent <- MCMonoContent
    Post = Post  Target = Target  Repo = Repo  Dest = Dest  Cache = Cache  Proxy = Proxy
    Ops <- MCOps  OtherIds <- MCOtherIds  Members <- MCMembers  Ask <- MCAsk
    Lists <- MCLists  Images <- MCImages  Layers <- MCLayers  Refs <- MCRefs  Tags <- MCTags  PageSize = 1  Altered = Altered
    Workloads <- MCWorkloads
    MaxChunks = 2  MaxRetries = 2  MaxFaults = 1
    Absent = Absent  None = None
INVARIANT RegistryTypeOK
INVARIANT UploadsSafe
INVARIANT RegistrySafe
PROPERTY MoveKeepsImage
PROPERTY Reclaimed
