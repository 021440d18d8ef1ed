CONSTANTS
  dav = dav
  work = work
  CalDav = {dav}
  Google = {work}
  NoAccount = NoAccount
  Configs <- SomeConfigs
  MaxCalendars = 2
  MaxConnects = 1
SPECIFICATION Spec
PROPERTY LastKnownGood
