SPECIFICATION FrontSpec
CONSTANTS
  i1 = i1
  i2 = i2
  local = local
  p1 = p1
  c1 = c1
  c2 = c2
  a1 = a1
  a2 = a2
  r1 = r1
  s1 = s1
  s2 = s2
  Ip = {i1, i2, local}
  Loopback = {local}
  RATE_LIMIT_WINDOW_MS = 3
  RATE_LIMIT_PER_IP = 2
  RATE_LIMIT_GLOBAL = 3
  Publisher = {p1}
  Campaign = {c1, c2}
  Cpm = {0, 1}
  CAMPAIGN_ALLOWLIST = {c2}
  Post = {b1, b2}
  Cid = {c1, c2}
  Advertiser = {a1, a2}
  Owner <- MCOwner
  Service = {s1, s2}
  KeyOf <- MCKeyOf
  Address = {a1, a2, r1}
  Configurations <- MCConfigurations
INVARIANT OwnKeyNeedsOverride
