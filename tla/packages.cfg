SPECIFICATION Spec
CHECK_DEADLOCK FALSE
CONSTANTS
    a = a  b = b  da = da  db = db
    up1 = up1  up2 = up2  upp = upp  geth = geth  geth2 = geth2  getc = getc  getp = getp
    geto = geto  gets = gets  del = del  snap = snap  rot = rot  rot2 = rot2  deep = deep
    upo = upo  upn = upn  dla = dla  dlc = dlc  dlc2 = dlc2  dlp = dlp  dlo = dlo  yank = yank  pub = pub  dlx = dlx  i1 = i1  i2 = i2
    pgh = pgh  pgc = pgc  pgp = pgp
    Hosted = Hosted  Cache = Cache  Proxy = Proxy  Outer = Outer  Snap = Snap  Root = Root
    Pkgs <- MCPkgs  Dirs <- MCDirs  DirOf <- MCDirOf  Insts <- MCInsts  Reqs <- MCReqs  Ask <- MCAsk
    Offers <- MCOffers  Workloads <- MCWorkloads
    MaxFaults = 1  None = None
INVARIANT TypeOK
INVARIANT IndexesCurrent
INVARIANT NamesStored
PROPERTY StoredOnce
PROPERTY Shown
