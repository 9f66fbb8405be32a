\* Four orders, stored before or while the reports run.
CONSTANTS
    Orders <- TheOrders
    Users = {"ann", "bob", "cyd"}
    Products = {"pen", "cup"}
    Countries = {"fr", "pe"}
    Shards = {0, 1}
    Owner <- TheOwner
    Amount <- TheAmount
    Lines <- TheLines
    Price <- ThePrice
    Country <- TheCountry
    Home <- TheHome
    ManyOrders = 1
    HighProduct = 7
    HighCountry = 12
    Scale = 10
    MaxChunks = 2
SPECIFICATION Spec
INVARIANTS
    TypeOK
PROPERTIES
    UsersAreRollUp
    ProductsAreRollUp
    CountriesAreRollUp
    ReportEnds
