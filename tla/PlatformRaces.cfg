SPECIFICATION PlatformSpec
CONSTANTS
    o1 = o1  o2 = o2
    m1 = m1  m2 = m2  s1 = s1  s2 = s2  s3 = s3  f1 = f1  k1 = k1  c1 = c1  ga = ga  gb = gb  i1 = i1  q1 = q1
    e1 = e1  g1 = g1  g2 = g2
    Addresses = {u1}
    OldPasswords = {old}
    NewPasswords = {new}
    Providers = {google}
    Registrants = {g1}
    SignIns = {q1, q2}
    Issuers = {i1, i2}
    Resetters = {r1}
    MaxAttempts = 1
    MaxUnderWay = 2
    NoPassword = NoPassword
    NoOne = NoOne
    Orgs = {o1, o2}
    People = {m1, m2}
    OrgStores = {s1, s2, s3}
    OwnerOf <- MCOwnerOf
    StoreOrg <- MCStoreOrg
    Features = {f1}
    ManagerDefault = {f1}
    MemberDefault = {}
    Newcomers = {m2}
    OrgRequests = {c1, c2}
    Hires <- MCHires
    Patches <- MCPatches
    Unset = Unset
    Invitees = {e1}
    InviteRoles = {ADMIN}
    Grants = {p1, p2}
    Inviters = {i1}
    Revokers = {v1}
    Accepters = {x1, x2}
    RoleEditors = {d1, d2}
    Assessors = {q1, q2}
    MaxTokens = 2
    None = None
    Cards = {k1, k2}
    RateCards <- MCRateCards
    CardPolicies = {"BUYER"}
    Unit = 100000
    DefaultRate = 2000
    MaxRate = 50000
    Baskets <- MCBaskets
    CardRequests = {c1, c2}
    Quoters = {q1}
    NoCard = NoCard
    AnyMethod = AnyMethod
    NoFee = NoFee
    Goods = {ga, gb}
    GoodsStore <- MCGoodsStore
    AdSets <- MCAdSets
    Price = 100
    MaxQuantity = 4
    CartRequests = {c1, c2}
    WishRequests = {w1, w2}
    AddressRequests = {d1, d2}
    ReviewRequests = {r1, r2}
    Variants = {v1}
    AddressIds = {1, 2, 3}
    Bought = {b1, b2}
    Ratings = {1, 5}
    NoRow = NoRow
    Checkouts = {1, 2}
    KeySets <- MCKeySets
    SecretSets <- MCSecretSets
    Tries <- MCTries
    MaxGatewayTime = 1
    RefundParts = {1, 2, 5}
    PaymentAmount = 7
    GatewayFee = 3
    FeeRefunds = {r1, r2}
    NoGateway = NoGateway
    RefundGateways = {"PAYMONGO", "XENDIT", "STRIPE"}
    Askers = {r1, r2}
    Claimers = {x1}
    MaxCalls = 2
    MaxLosses = 2
    Confirmers = {f1, f2}
    Codes = {h1, h2}
    NoCode = NoCode
    Builds = {1, 2}
    Publishers = {b1, b2}
    NoBuild = NoBuild
    Instances = {i1, i2}
    LoginRequests = {l1, l2}
    Limits <- MCLimits
    MaxHits = 5
    MaxFaults = 1
    Categories = {g1, g2, g3}
    StoreCategories = {g1}
    Articles = {a1}
    Editors = {e1, e2}
    NoCategory = NoCategory
INVARIANTS
    AccountsAreSafe RefundsAreSafe PickupIsSafe
PROPERTIES
    StaffStayInside GrantsAreIntended PricingIsSound ShoppersSeeConsistentData CheckoutsAreSafe
    OperationsAreGuarded
CHECK_DEADLOCK FALSE
