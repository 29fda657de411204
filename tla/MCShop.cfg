SPECIFICATION ShopSpec
CONSTANTS
  User = {u1, u2}
  Sku = {s1, s2}
  Request = {r1, r2}
  WelcomeSeed = 4
  Price = 2
SYMMETRY ShopSymmetry
INVARIANT
  ChargesMatchOwnership
