\* Two orders of one buyer that complete at once under a campaign whose budget is
\* short of both bonuses, a claim, two checkouts with the voucher, a top-up and two
\* expiry sweeps that overlap.
SPECIFICATION RewardSpec
CONSTANTS
    b1 = b1
    o1 = o1
    o2 = o2
    c1 = c1
    Buyers = {b1}
    Orders = {o1, o2}
    BuyerOf <- MCBuyerOf
    EarnedPoints <- MCEarnedPoints
    Campaigns <- MCCampaigns
    BonusPoints <- MCBonusPoints
    Budgets = {3}
    TopUps = {2}
    StatusPatches = {"ACTIVE"}
    PointValue = 2
    Vouchers = {v1}
    PointCost = 1
    TotalStock = 1
    UserVouchers = {u1}
    Completers = {q1, q2}
    Claimers = {k1}
    Checkouts = {x1, x2}
    Editors = {e1}
    Sweepers = {s1, s2}
    MaxBudget = 5
    None = None
INVARIANTS
    RewardTypeOK
    BalanceIsLedger
    CampaignPaysItsBonuses
    VoucherUsedOnce
PROPERTIES
    LapsedPointsGo
CHECK_DEADLOCK FALSE
