CONSTANTS
  sync = sync
  import = import
  t1 = t1
  t2 = t2
  t3 = t3
  t4 = t4
  u1 = u1
  u2 = u2
  Batches = {sync, import}
  Items = {t1, t2, t3, t4}
  Urls = {u1, u2}
  Groups <- SyncAndImport
  UrlOf <- SameUrl
  Imports = {import}
  OnlyMatches = {sync}
  OpenAILimit = 1
  HttpxLimit = 1
  Threads = 2
SPECIFICATION FairIngestSpec
INVARIANT OneAssetPerPost
PROPERTIES BatchEnds
