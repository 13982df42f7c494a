SPECIFICATION FinanceSpec
CONSTANTS
  Periods = {1}
  Until = 2
  ArchiveAfter = 0
  MaxBoards = 1
  MaxColumns = 4
  MaxCards = 3
  MaxDay = 1
  MaxChanges = 3
  FirstYear = 2023
  LastYear = 2026
  MaxLength = 1
  Pictures = {"p"}
  DiaryExports <- TwoPosts
  Uploads = {"u1", "u2"}
  Quota = 2
  PageSize = 1
  Dates = {1, 2}
  MaxEntries = 3
  MaxDiaryChanges = 4
  Viewers = {"a", "b"}
  DiaryGoal = 1
  Steps = {2}
  FullDrops = 2
  Lookback = 3
  FirstDay = 5
  MaxFamilyDay = 7
  MaxRoutines = 1
  MaxWishes = 3
  MaxFamilyChanges = 4
  Foods = {"rice", "beef"}
  FoodPlans <- RicePlans
  Editors = {"a", "b"}
  Horizon = 2
  MaxFoodDay = 3
  MaxQty = 1
  MaxFoodChanges = 3
  Words = {"rice", "pap"}
  Times = {1, 2}
  MaxLogs = 3
  MaxCareChanges = 3
  People = {"a"}
  FinContents <- SomeContents
  FinExports <- SomeExports
  FinUses <- SomeUses
  FinLabels <- SomeLabels
  ThisMonth = 20
  MonthLength = 1000
  Clients = {"c"}
  Items = {"shop"}
  TagIds = {1}
  MaxWallets = 1
  MaxUses = 1
  MaxFinChanges = 6
  MaxBook = 5
INVARIANT
  InheritsNothing
CHECK_DEADLOCK FALSE
