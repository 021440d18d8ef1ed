CONSTANTS
  dav = dav
  work = work
  CalDav = {dav}
  Google = {work}
  NoAccount = NoAccount
  Configs <- SomeConfigs
  MaxCalendars = 1
  MaxConnects = 2
SPECIFICATION FairSpec
INVARIANTS
  TypeOK
  RefreshCoherent
PROPERTY WishesAreServed
