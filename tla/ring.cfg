\* One consumer on rb_pop and one on rb_pop_meta; a ring of two slots, each
\* of them written twice.
SPECIFICATION FairSpec
CONSTANTS
  RING_SIZE = 2
  Consumers = {c1, c2}
  MetaConsumers = {c2}
  Fields = {seq_id, payload}
  MetaFields = {seq_id}
  MaxPush = 4
INVARIANTS
  TypeOK
  NoTornDelivery
  EmptyIsHonest
  ResyncOnlyWhenLapped
PROPERTIES
  ImplementsLog
  Drains
