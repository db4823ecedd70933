\* One part per behaviour, each with its setups.
SPECIFICATION ClientsSpec
CONSTANTS
  p1 = p1
  p2 = p2
  k1 = k1
  k2 = k2
  c1 = c1
  c2 = c2
  c3 = c3
  w1 = w1
  w2 = w2
  w3 = w3
  w4 = w4
  v1 = v1
  Peer = {p2}
  Zone = {z1, z2}
  SocketSetups <- Sockets
  MaxSockets = 4
  MaxRefusals = 3
  MaxFrames = 2
  Token = {t1, t2}
  NoToken = NoToken
  MaxEpoch = 12
  SessionSetups <- Sessions
  ContentSetups <- Contents
  Device = {p1, p2}
  RecipientOf <- Recipients
  MaxAt = 2
  InboxSetups <- Inboxes
  Seeker = {p1, p2}
  TicketSetups <- Hunters
  Account = {p1, p2}
  NoAccount = NoAccount
  Handset = {h1, h2}
  BindingSetups <- Bindings
  Channel = {k1, k2}
  Call = {c1, c2, c3}
  CallFor <- Requests_
  Nothing = Nothing
  SubscriberSetups <- Subscribers
  FrameSetups <- Frames
  Writer = {w1, w2, w3, w4}
  EditOf <- Edits
  Falsy = Falsy
  Absent = Absent
  MaxRetries = 1
  MaxTicks = 3
  DocumentSetups <- Stores
  Length <- Lengths
  FirstPlain = 1
  LaterPlain = 2
  MaxRestarts = 2
  NoTag = NoTag
  AssetSetups <- Assets
  Query = {c1, c2, c3}
  MaxLinks = 5
  RedisSetups <- Skies
  LogKey = {k1, k2}
  MaxBuffer = 2
  LogSetups <- Inkwells
  Handler = {p1, p2}
  BrokerSetups <- Programmes
INVARIANTS BindingInvariant ReadsWhatArrived AssetInvariant LogInvariant BrokerInvariant
PROPERTIES SocketPromise SessionPromise ContentPromise InboxPromise TicketPromise SubscriberPromise ConnectionPromise DocumentPromise
\* Every part comes to rest.
CHECK_DEADLOCK FALSE
